---- MODULE Spec2Model ----
(***************************************************************************)
(* Model of backend/recommendation_engine.py: the multi-factor             *)
(* recommendation engine (RecommendationEngine and its analyzers), and of  *)
(* backend/utils/error_handler.py: CircuitBreaker and the retry decorator  *)
(* async_retry_with_backoff.                                               *)
(*                                                                         *)
(* Number representation.  The engine computes with Python floats; the     *)
(* model computes with integers in fixed point:                            *)
(*   prices, moving averages        hundredths of a currency unit          *)
(*   volumes                        units                                  *)
(*   change_percent                 whole percent                          *)
(*   fundamentals (pe, pb, roe ...) hundredths                             *)
(*   every 'score' field            tenths of a score point (0..1000)      *)
(*   composite score                thousandths of a score point           *)
(*   confidence                     hundredths of a point                  *)
(*   rsi, momentum, volatility ...  as noted at each definition            *)
(* Comparisons against thresholds are done exactly (cross-multiplied);     *)
(* only reported values are rounded.  A value that is None or 0 in the     *)
(* code and is tested by truthiness there (`if not x`, `x or 0`,           *)
(* `d.get(k, 0)`) is 0 here.                                               *)
(***************************************************************************)
EXTENDS Integers, Sequences, FiniteSets, TLC

VARIABLES
    engine,               \* self: the shared instance with its class tables
    quote,                \* argument: [present, price, change_percent]
    historical_data,      \* argument: sequence of bars [close, volume]
    fundamentals,         \* argument: [pe, pb, roe, roce, de, div_yield, mcap]
    sentiment_data,       \* argument: [present, bullish, bearish, neutral]
    news_items,           \* argument: sequence of "positive"/"negative"/"neutral"
    pc,                   \* "call", "returned" or "raised"
    technical_analysis,   \* result of _analyze_technicals
    fundamental_analysis, \* result of _analyze_fundamentals
    sentiment_analysis,   \* result of _analyze_sentiment
    risk_analysis,        \* result of _analyze_risk
    composite_score,      \* local of generate_recommendation, in thousandths
    recommendation,       \* return value of generate_recommendation
    scores,               \* argument of _calculate_confidence
    score,                \* argument of _determine_signal
    ret,                  \* return value of the helper called directly
    breaker,              \* a CircuitBreaker instance (utils/error_handler.py)
    now,                  \* datetime.now(), in seconds
    wrapper               \* frame of the wrapper of async_retry_with_backoff

vars == <<engine, quote, historical_data, fundamentals, sentiment_data, news_items, pc,
          technical_analysis, fundamental_analysis, sentiment_analysis,
          risk_analysis, composite_score, recommendation, scores, score, ret,
          breaker, now, wrapper>>

\* the state of utils/error_handler.py, which the engine never touches
utils == <<breaker, now, wrapper>>

(***************************************************************************)
(* Bounds of the model.                                                    *)
(***************************************************************************)
MaxBars == 27
MaxStep == 3
MaxChange == 3
MaxCount == 8
MaxNews == 3
MaxInvocations == 2
MaxLongBars == 51
MaxRetries == 4
MaxThreshold == 3
MaxCalls == 5
MaxClock == 5
ScoreGrid == 8

\* None, and the value of a local that has not been assigned yet.
None == [none |-> TRUE]

(***************************************************************************)
(* Arithmetic helpers.                                                     *)
(***************************************************************************)
Max(a, b) == IF a >= b THEN a ELSE b
Min(a, b) == IF a <= b THEN a ELSE b

ClampMissing(s) == s

\* max(0, min(100, score)) on a score in whole points.
Clamp(s) == Max(0, Min(100, s))

\* round(a / b) for a >= 0, b > 0, and its signed version.
RoundDiv(a, b) == (2 * a + b) \div (2 * b)
RoundS(a, b) == IF a >= 0 THEN RoundDiv(a, b) ELSE -RoundDiv(-a, b)

RECURSIVE SumSeq(_)
SumSeq(s) == IF s = <<>> THEN 0 ELSE Head(s) + SumSeq(Tail(s))

\* s[-n:] and s[:n]
LastN(s, n) == IF Len(s) <= n THEN s ELSE SubSeq(s, Len(s) - n + 1, Len(s))
FirstN(s, n) == IF Len(s) <= n THEN s ELSE SubSeq(s, 1, n)
Last(s) == s[Len(s)]

RECURSIVE SqrtBetween(_, _, _)
SqrtBetween(x, lo, hi) ==
    IF lo >= hi THEN lo
    ELSE LET mid == (lo + hi + 1) \div 2
         IN  IF mid * mid <= x THEN SqrtBetween(x, mid, hi)
             ELSE SqrtBetween(x, lo, mid - 1)

\* math.sqrt, truncated to an integer; 46340 is the largest root of an int.
ISqrt(x) == SqrtBetween(x, 0, 46340)

(***************************************************************************)
(* _calculate_rsi.  The RSI is kept as the exact fraction num/den:         *)
(* 100 - 100/(1 + avg_gain/avg_loss) = 100*G/(G+L), G and L the sums of    *)
(* gains and losses over the trailing `period` deltas.                     *)
(***************************************************************************)
Deltas(prices) == [i \in 1..(Len(prices) - 1) |-> prices[i + 1] - prices[i]]
Gains(deltas) == [i \in 1..Len(deltas) |-> IF deltas[i] > 0 THEN deltas[i] ELSE 0]
Losses(deltas) == [i \in 1..Len(deltas) |-> IF deltas[i] < 0 THEN -deltas[i] ELSE 0]

CalculateRsi(prices, period) ==
    IF Len(prices) < period + 1 THEN [num |-> 50, den |-> 1]
    ELSE LET deltas == Deltas(prices)
             G == SumSeq(LastN(Gains(deltas), period))
             L == SumSeq(LastN(Losses(deltas), period))
         IN  IF L = 0 THEN [num |-> 100, den |-> 1]
             ELSE [num |-> 100 * G, den |-> G + L]

(***************************************************************************)
(* _calculate_ema and _calculate_macd, in ten-thousandths of a currency    *)
(* unit (prices times 100).                                                *)
(***************************************************************************)
RECURSIVE EmaFold(_, _, _)
EmaFold(ema, rest, period) ==
    IF rest = <<>> THEN ema
    ELSE EmaFold(ema + (2 * (100 * Head(rest) - ema)) \div (period + 1),
                 Tail(rest), period)

CalculateEma(prices, period) ==
    IF Len(prices) < period
    THEN (IF prices = <<>> THEN 0 ELSE 100 * Last(prices))
    ELSE EmaFold((100 * SumSeq(FirstN(prices, period))) \div period,
                 SubSeq(prices, period + 1, Len(prices)), period)

CalculateMacd(prices) ==
    IF Len(prices) < 26 THEN [macd |-> 0, signal |-> 0, histogram |-> 0]
    ELSE LET macd_line == CalculateEma(prices, 12) - CalculateEma(prices, 26)
             signal_line == (macd_line * 9) \div 10
         IN  [macd |-> macd_line, signal |-> signal_line,
              histogram |-> macd_line - signal_line]

(***************************************************************************)
(* _analyze_technicals.  The result is [raised, score, indicators];        *)
(* `indicators` is the dict of the code, `keys` being the keys it holds.   *)
(***************************************************************************)
HasClose(d) == d.close # 0
HasVolume(d) == d.volume # 0

\* closes = [d.get('close') for d in historical_data if d.get('close')]
ClosesOf(hd) ==
    LET kept == SelectSeq(hd, HasClose) IN [i \in 1..Len(kept) |-> kept[i].close]

\* volumes = [d.get('volume') for d in historical_data if d.get('volume')]
VolumesOf(hd) ==
    LET kept == SelectSeq(hd, HasVolume) IN [i \in 1..Len(kept) |-> kept[i].volume]

\* change_pct = quote.get('change_percent') or 0
ChangePct(q) == q.change_percent

QuoteOnlyAdjustFromTwo(q) ==
    IF ~q.present THEN 0
    ELSE IF ChangePct(q) >= 2 THEN 15
    ELSE IF ChangePct(q) > 0 THEN 5
    ELSE IF ChangePct(q) <= -2 THEN -15
    ELSE IF ChangePct(q) < 0 THEN -5
    ELSE 0

\* The branch for fewer than 5 bars: the score comes from the quote alone.
QuoteOnlyAdjust(q) ==
    IF ~q.present THEN 0
    ELSE IF ChangePct(q) > 2 THEN 15
    ELSE IF ChangePct(q) > 0 THEN 5
    ELSE IF ChangePct(q) < -2 THEN -15
    ELSE IF ChangePct(q) < 0 THEN -5
    ELSE 0

RsiSignal(rsi) ==
    IF rsi.num < 30 * rsi.den THEN "OVERSOLD"
    ELSE IF rsi.num < 40 * rsi.den THEN "APPROACHING_OVERSOLD"
    ELSE IF rsi.num > 70 * rsi.den THEN "OVERBOUGHT"
    ELSE IF rsi.num > 60 * rsi.den THEN "APPROACHING_OVERBOUGHT"
    ELSE "NEUTRAL"

RsiAdjustOverboughtBullish(rsi) ==
    IF rsi.num < 30 * rsi.den THEN 20
    ELSE IF rsi.num < 40 * rsi.den THEN 10
    ELSE IF rsi.num > 70 * rsi.den THEN 20
    ELSE IF rsi.num > 60 * rsi.den THEN 10
    ELSE 0

RsiAdjust(rsi) ==
    IF rsi.num < 30 * rsi.den THEN 20
    ELSE IF rsi.num < 40 * rsi.den THEN 10
    ELSE IF rsi.num > 70 * rsi.den THEN -20
    ELSE IF rsi.num > 60 * rsi.den THEN -10
    ELSE 0

\* current_price > ma_n, with ma_n = sum(closes[-n:]) / n.  The comparison is
\* exact here.  In the code it is one of floats: when the exact average
\* equals the close (a flat window), the float sum of n equal closes may miss
\* n times the close by a rounding error and the comparison then follows
\* that error (20 closes of 62.91 average below 62.91); it is exact for a
\* window flat at 100.00, the only flat windows of the series drawn below.
AboveMa(closes, n) == n * Last(closes) > SumSeq(LastN(closes, n))
MaAdjustAtOrAbove(closes, n) ==
    IF n * Last(closes) >= SumSeq(LastN(closes, n)) THEN 10 ELSE -10

MaAdjust(closes, n) == IF AboveMa(closes, n) THEN 10 ELSE -10
MaSignal(closes, n) == IF AboveMa(closes, n) THEN "ABOVE" ELSE "BELOW"

MacdAdjust(m) == IF m.histogram > 0 THEN 10 ELSE -10
MacdTrend(m) == IF m.histogram > 0 THEN "BULLISH" ELSE "BEARISH"

\* momentum = ((closes[-1] - closes[-10]) / closes[-10]) * 100, as the pair
\* (difference, base)
MomentumAdjust(closes) ==
    LET a == Last(closes)
        b == closes[Len(closes) - 9]
    IN  IF 100 * (a - b) > 5 * b THEN 15
        ELSE IF a - b > 0 THEN 5
        ELSE IF 100 * (a - b) < -5 * b THEN -15
        ELSE IF a - b < 0 THEN -5
        ELSE 0

\* momentum_10d, in hundredths of a percent
Momentum10d(closes) ==
    LET a == Last(closes)
        b == closes[Len(closes) - 9]
    IN  RoundS(10000 * (a - b), b)

\* recent_volume against avg_volume = sum(volumes[-10:]) / 10
VolumeSignal(volumes) ==
    LET total == SumSeq(LastN(volumes, 10))
        recent == Last(volumes)
    IN  IF 20 * recent > 3 * total THEN "HIGH"
        ELSE IF 20 * recent < total THEN "LOW"
        ELSE "NORMAL"

\* `quote.get('change_percent')` is evaluated before `quote` is tested: with
\* quote = None the statement raises AttributeError.
VolumeRaises(q, volumes) ==
    /\ Len(volumes) >= 10
    /\ VolumeSignal(volumes) = "HIGH"
    /\ ~q.present

VolumeAdjust(q, volumes) ==
    IF Len(volumes) >= 10 /\ VolumeSignal(volumes) = "HIGH"
       /\ q.present /\ ChangePct(q) > 0
    THEN 5 ELSE 0

NoIndicators ==
    [keys |-> {}, data_available |-> FALSE, rsi |-> 0, rsi_signal |-> "",
     ma_20 |-> 0, ma_20_signal |-> "", ma_50 |-> 0, ma_50_signal |-> "",
     macd |-> 0, macd_signal |-> 0, macd_histogram |-> 0, macd_trend |-> "",
     momentum_10d |-> 0, volume_signal |-> ""]

TechnicalIndicators(hd) ==
    LET closes == ClosesOf(hd)
        volumes == VolumesOf(hd)
        n == Len(closes)
        rsi == CalculateRsi(closes, 14)
        m == CalculateMacd(closes)
    IN  [keys |-> {"data_available"}
                  \cup (IF n >= 14 THEN {"rsi", "rsi_signal"} ELSE {})
                  \cup (IF n >= 20 THEN {"ma_20", "price_vs_ma20", "ma_20_signal"} ELSE {})
                  \cup (IF n >= 50 THEN {"ma_50", "ma_50_signal"} ELSE {})
                  \cup (IF n >= 26 THEN {"macd", "macd_signal", "macd_histogram",
                                         "macd_trend"} ELSE {})
                  \cup (IF n >= 10 THEN {"momentum_10d"} ELSE {})
                  \cup (IF Len(volumes) >= 10 THEN {"volume_signal"} ELSE {}),
         data_available |-> TRUE,
         \* round(rsi, 1), in tenths
         rsi |-> IF n >= 14 THEN RoundDiv(10 * rsi.num, rsi.den) ELSE 0,
         rsi_signal |-> IF n >= 14 THEN RsiSignal(rsi) ELSE "",
         ma_20 |-> IF n >= 20 THEN RoundDiv(SumSeq(LastN(closes, 20)), 20) ELSE 0,
         ma_20_signal |-> IF n >= 20 THEN MaSignal(closes, 20) ELSE "",
         ma_50 |-> IF n >= 50 THEN RoundDiv(SumSeq(LastN(closes, 50)), 50) ELSE 0,
         ma_50_signal |-> IF n >= 50 THEN MaSignal(closes, 50) ELSE "",
         \* macd values: hundredths of a currency unit
         macd |-> IF n >= 26 THEN RoundS(m.macd, 100) ELSE 0,
         macd_signal |-> IF n >= 26 THEN RoundS(m.signal, 100) ELSE 0,
         macd_histogram |-> IF n >= 26 THEN RoundS(m.histogram, 100) ELSE 0,
         macd_trend |-> IF n >= 26 THEN MacdTrend(m) ELSE "",
         momentum_10d |-> IF n >= 10 THEN Momentum10d(closes) ELSE 0,
         volume_signal |-> IF Len(volumes) >= 10 THEN VolumeSignal(volumes) ELSE ""]

TechnicalPoints(q, hd) ==
    LET closes == ClosesOf(hd)
        n == Len(closes)
    IN  50
        + (IF n >= 14 THEN RsiAdjust(CalculateRsi(closes, 14)) ELSE 0)
        + (IF n >= 20 THEN MaAdjust(closes, 20) ELSE 0)
        + (IF n >= 50 THEN MaAdjust(closes, 50) ELSE 0)
        + (IF n >= 26 THEN MacdAdjust(CalculateMacd(closes)) ELSE 0)
        + (IF n >= 10 THEN MomentumAdjust(closes) ELSE 0)
        + VolumeAdjust(q, VolumesOf(hd))

AnalyzeTechnicals(q, hd) ==
    IF Len(hd) < 5
    THEN [raised |-> FALSE,
          score |-> 10 * Clamp(50 + QuoteOnlyAdjust(q)),
          indicators |-> [NoIndicators EXCEPT !.keys = {"data_available"}]]
    ELSE IF VolumeRaises(q, VolumesOf(hd))
    THEN [raised |-> TRUE, score |-> 0, indicators |-> NoIndicators]
    ELSE [raised |-> FALSE,
          score |-> 10 * Clamp(TechnicalPoints(q, hd)),
          indicators |-> TechnicalIndicators(hd)]

(***************************************************************************)
(* _score_value, _score_growth, _score_safety, _score_quality and          *)
(* _analyze_fundamentals.  Fundamentals are in hundredths; an absent key   *)
(* is 0, the default of data.get(key, 0).  Sub-scores are whole points.    *)
(***************************************************************************)
\* BENCHMARKS['nifty_pe'] = 22.5: the ladder is 0.6, 0.8, 1.0, 1.5 and 1.2
\* times it
PeAdjustUnguarded(pe) ==
    IF pe < 1350 THEN 30
    ELSE IF pe < 1800 THEN 20
    ELSE IF pe < 2250 THEN 10
    ELSE IF pe > 3375 THEN -20
    ELSE IF pe > 2700 THEN -10
    ELSE 0

PeAdjust(pe) ==
    IF pe > 0
    THEN (IF pe < 1350 THEN 30
          ELSE IF pe < 1800 THEN 20
          ELSE IF pe < 2250 THEN 10
          ELSE IF pe > 3375 THEN -20
          ELSE IF pe > 2700 THEN -10
          ELSE 0)
    ELSE 0

\* BENCHMARKS['nifty_pb'] = 3.2.  In floats 3.2 * 0.8 = 2.5600000000000005
\* and 3.2 * 3 = 9.600000000000001, so a pb of 2.56 is below the first and a
\* pb of 9.60 is not above the second.
PbAdjust(pb) ==
    IF pb > 0
    THEN (IF pb < 100 THEN 20
          ELSE IF pb <= 256 THEN 10
          ELSE IF pb > 960 THEN -15
          ELSE 0)
    ELSE 0

ScoreValue(data) == Clamp(50 + PeAdjust(data.pe) + PbAdjust(data.pb))

RoeAdjust(roe) ==
    IF roe > 2500 THEN 25
    ELSE IF roe > 2000 THEN 20
    ELSE IF roe > 1500 THEN 10
    ELSE IF roe < 800 THEN -15
    ELSE 0

RoceAdjust(roce) ==
    IF roce > 3000 THEN 20
    ELSE IF roce > 2200 THEN 15
    ELSE IF roce > 1800 THEN 10
    ELSE IF roce < 1000 THEN -10
    ELSE 0

ScoreGrowth(data) == Clamp(50 + RoeAdjust(data.roe) + RoceAdjust(data.roce))

DeAdjust(de) ==
    IF de < 10 THEN 30
    ELSE IF de < 30 THEN 20
    ELSE IF de < 100 THEN 10
    ELSE IF de > 200 THEN -30
    ELSE IF de > 150 THEN -15
    ELSE 0

DivAdjust(div) ==
    IF div > 200 THEN 10
    ELSE IF div > 100 THEN 5
    ELSE 0

ScoreSafety(data) == Clamp(50 + DeAdjust(data.de) + DivAdjust(data.div_yield))

ProfitabilityAdjust(roe, roce) ==
    IF roe > 1500 /\ roce > 1800 THEN 25
    ELSE IF roe > 1200 /\ roce > 1500 THEN 15
    ELSE IF roe < 0 \/ roce < 0 THEN -20
    ELSE 0

McapAdjust(mcap) ==
    IF mcap = "Large Cap" THEN 10
    ELSE IF mcap = "Mid Cap" THEN 5
    ELSE IF mcap = "Penny Stock" THEN -10
    ELSE 0

ScoreQuality(data) ==
    Clamp(50 + ProfitabilityAdjust(data.roe, data.roce) + McapAdjust(data.mcap))

\* score = round(0.30 v + 0.30 g + 0.20 s + 0.20 q, 1), in tenths; `metrics`
\* is the argument itself, `factors` the sub-scores in tenths.
AnalyzeFundamentals(data) ==
    [score |-> 3 * ScoreValue(data) + 3 * ScoreGrowth(data)
               + 2 * ScoreSafety(data) + 2 * ScoreQuality(data),
     metrics |-> data,
     factors |-> [value |-> 10 * ScoreValue(data),
                  growth |-> 10 * ScoreGrowth(data),
                  safety |-> 10 * ScoreSafety(data),
                  quality |-> 10 * ScoreQuality(data)]]

(***************************************************************************)
(* _analyze_sentiment.                                                     *)
(***************************************************************************)
CountAdjustFirstRungOnly(sd) ==
    LET total == sd.bullish + sd.bearish + sd.neutral
    IN  IF ~sd.present \/ total <= 0 THEN 0
        ELSE IF 10 * sd.bullish > 5 * total THEN 15
        ELSE IF 10 * sd.bearish > 7 * total THEN -25
        ELSE IF 10 * sd.bearish > 5 * total THEN -15
        ELSE 0

\* the tally of bullish / bearish / neutral counts
CountAdjust(sd) ==
    LET total == sd.bullish + sd.bearish + sd.neutral
    IN  IF ~sd.present \/ total <= 0 THEN 0
        ELSE IF 10 * sd.bullish > 7 * total THEN 25
        ELSE IF 10 * sd.bullish > 5 * total THEN 15
        ELSE IF 10 * sd.bearish > 7 * total THEN -25
        ELSE IF 10 * sd.bearish > 5 * total THEN -15
        ELSE 0

CountOf(items, what) == Cardinality({i \in 1..Len(items) : items[i] = what})

\* the tally of the news items' sentiments
NewsAdjust(items) ==
    LET positive_news == CountOf(items, "positive")
        negative_news == CountOf(items, "negative")
    IN  IF items = <<>> THEN 0
        ELSE IF positive_news > negative_news * 2 THEN 15
        ELSE IF positive_news > negative_news THEN 5
        ELSE IF negative_news > positive_news * 2 THEN -15
        ELSE IF negative_news > positive_news THEN -5
        ELSE 0

AnalyzeSentiment(sd, items) ==
    [score |-> 10 * Clamp(50 + CountAdjust(sd) + NewsAdjust(items))]

(***************************************************************************)
(* _analyze_risk.  Returns are in hundredths of a percent (basis points),  *)
(* and so are volatility, max drawdown and VaR; beta is in hundredths.     *)
(***************************************************************************)
\* returns[i] = (closes[i] - closes[i-1]) / closes[i-1] * 100
Returns(closes) ==
    [i \in 1..(Len(closes) - 1) |->
        RoundS(10000 * (closes[i + 1] - closes[i]), closes[i])]

SumSquares(s) == SumSeq([i \in 1..Len(s) |-> s[i] * s[i]])

\* variance of the trailing 20 returns (population variance)
Variance20(returns) ==
    LET recent == LastN(returns, 20)
        total == SumSeq(recent)
    IN  (SumSquares(recent) - (total * total) \div 20) \div 20

\* The trailing 21 closes grow by one common ratio: the 20 returns are equal
\* and their variance is exactly 0, so `if volatility_30d:` is false.
ZeroVariance(closes) ==
    LET w == LastN(closes, 21)
    IN  \A i \in 2..(Len(w) - 1) : w[i] * w[i] = w[i - 1] * w[i + 1]

\* volatility_30d = sqrt(variance) * sqrt(252)
Volatility30d(closes) == ISqrt(Variance20(Returns(closes)) * 252)

\* var_95 = mean_return - 1.645 * daily_vol
Var95(closes) ==
    LET returns == Returns(closes)
        daily_vol == ISqrt(Variance20(returns))
    IN  RoundS(50 * SumSeq(LastN(returns, 20)) - 1645 * daily_vol, 1000)

\* the running peak and the largest (peak - price) / peak seen, as a fraction
RECURSIVE DrawdownFold(_, _, _)
DrawdownFold(rest, peak, worst) ==
    IF rest = <<>> THEN worst
    ELSE LET price == Head(rest)
             top == IF price > peak THEN price ELSE peak
             dd == [num |-> top - price, den |-> top]
         IN  DrawdownFold(Tail(rest), top,
                          IF dd.num * worst.den > worst.num * dd.den
                          THEN dd ELSE worst)

\* max_drawdown = -max_dd, in hundredths of a percent
MaxDrawdown(closes) ==
    LET worst == DrawdownFold(closes, closes[1], [num |-> 0, den |-> 1])
    IN  -RoundDiv(10000 * worst.num, worst.den)

\* beta = clamp(1.0 + (volatility_30d - 15) / 20, 0.5, 2.0); 1.0 without it
Beta(has_vol, vol) ==
    IF has_vol THEN Max(50, Min(200, 100 + RoundS(vol - 1500, 20))) ELSE 100

VolatilityAdjust(vol) ==
    IF vol < 1500 THEN 20
    ELSE IF vol < 2500 THEN 10
    ELSE IF vol < 4000 THEN -10
    ELSE -25

VolatilityLevel(vol) ==
    IF vol < 1500 THEN "LOW"
    ELSE IF vol < 2500 THEN "MODERATE"
    ELSE IF vol < 4000 THEN "HIGH"
    ELSE "VERY_HIGH"

ProxyAdjustCapTierFirst(data) ==
    IF data.mcap = "Large Cap" THEN 10
    ELSE IF data.mcap = "Penny Stock" THEN -20
    ELSE IF data.de > 150 THEN -15
    ELSE 0

\* the fundamentals proxy used when there is no volatility
ProxyAdjust(data) ==
    IF data.de > 150 THEN -15
    ELSE IF data.mcap = "Large Cap" THEN 10
    ELSE IF data.mcap = "Penny Stock" THEN -20
    ELSE 0

ProxyLevelCashRich(data) ==
    IF data.de > 150 THEN "HIGH"
    ELSE IF data.de < 10 THEN "LOW"
    ELSE IF data.mcap = "Large Cap" THEN "LOW"
    ELSE IF data.mcap = "Penny Stock" THEN "VERY_HIGH"
    ELSE "MODERATE"

ProxyLevel(data) ==
    IF data.de > 150 THEN "HIGH"
    ELSE IF data.mcap = "Large Cap" THEN "LOW"
    ELSE IF data.mcap = "Penny Stock" THEN "VERY_HIGH"
    ELSE "MODERATE"

\* The result is [score, keys, volatility_30d, beta, max_drawdown, var_95,
\* risk_level]; `keys` holds the names of the metrics that are not None.
AnalyzeRisk(q, hd, data) ==
    LET closes == ClosesOf(hd)
        enough == Len(hd) >= 20 /\ Len(closes) >= 20
        computed == enough /\ Len(closes) >= 21
        has_vol == computed /\ ~ZeroVariance(closes)
        vol == IF computed THEN Volatility30d(closes) ELSE 0
        var95 == IF computed THEN Var95(closes) ELSE 0
        mdd == IF enough THEN MaxDrawdown(closes) ELSE 0
    IN  [score |-> 10 * Clamp(50 + (IF has_vol THEN VolatilityAdjust(vol)
                                    ELSE ProxyAdjust(data))),
         keys |-> (IF has_vol THEN {"volatility_30d"} ELSE {})
                  \cup (IF enough THEN {"beta"} ELSE {})
                  \cup (IF enough /\ mdd # 0 THEN {"max_drawdown"} ELSE {})
                  \cup (IF computed /\ var95 # 0 THEN {"var_95"} ELSE {}),
         volatility_30d |-> IF has_vol THEN vol ELSE 0,
         beta |-> IF enough THEN Beta(has_vol, vol) ELSE 0,
         max_drawdown |-> mdd,
         var_95 |-> var95,
         risk_level |-> IF has_vol THEN VolatilityLevel(vol) ELSE ProxyLevel(data)]

(***************************************************************************)
(* _determine_signal, on a score in thousandths, and _calculate_confidence *)
(* on a list of scores in tenths, giving hundredths.                       *)
(***************************************************************************)
DetermineSignalStrict(s) ==
    IF s > 80000 THEN "STRONG BUY"
    ELSE IF s > 65000 THEN "BUY"
    ELSE IF s > 45000 THEN "HOLD"
    ELSE IF s > 30000 THEN "SELL"
    ELSE "AVOID"

DetermineSignal(s) ==
    IF s >= 80000 THEN "STRONG BUY"
    ELSE IF s >= 65000 THEN "BUY"
    ELSE IF s >= 45000 THEN "HOLD"
    ELSE IF s >= 30000 THEN "SELL"
    ELSE "AVOID"

\* std_dev of the scores, in hundredths of a point
StdDev(xs) ==
    LET n == Len(xs)
        total == SumSeq(xs)
    IN  ISqrt(100 * (n * SumSquares(xs) - total * total)) \div n

CalculateConfidenceHalfScale(xs) ==
    IF xs = <<>> THEN 5000
    ELSE LET agreement_factor == Max(0, 10000 - (StdDev(xs) * 100) \div 30)
             confidence == 4000 + (agreement_factor * 50) \div 100
         IN  Min(9500, confidence)

CalculateConfidenceNoFloor(xs) ==
    IF xs = <<>> THEN 5000
    ELSE LET agreement_factor == 10000 - (StdDev(xs) * 100) \div 30
             confidence == 4000 + (agreement_factor * 55) \div 100
         IN  Min(9500, confidence)

CalculateConfidence(xs) ==
    IF xs = <<>> THEN 5000
    ELSE LET agreement_factor == Max(0, 10000 - (StdDev(xs) * 100) \div 30)
             confidence == 4000 + (agreement_factor * 55) \div 100
         IN  Min(9500, confidence)

(***************************************************************************)
(* generate_recommendation: the composite score and the pieces built from  *)
(* the four analyses.                                                      *)
(***************************************************************************)
\* WEIGHTS, in percent
Weight(factor) ==
    CASE factor = "technical" -> 30
      [] factor = "fundamental" -> 35
      [] factor = "sentiment" -> 15
      [] factor = "risk" -> 20

\* The module-level instance: its state is the three class tables (WEIGHTS in
\* percent, SIGNAL_THRESHOLDS in thousandths, BENCHMARKS in hundredths) and
\* a logger.  The operators of this module read the tables as written here.
recommendation_engine ==
    [WEIGHTS |-> [factor \in {"technical", "fundamental", "sentiment", "risk"}
                     |-> Weight(factor)],
     SIGNAL_THRESHOLDS |-> [strong_buy |-> 80000, buy |-> 65000, hold |-> 45000,
                            sell |-> 30000, avoid |-> 0],
     BENCHMARKS |-> [nifty_pe |-> 2250, nifty_pb |-> 320,
                     risk_free_rate |-> 700, market_return |-> 1200]]

CompositeEqualWeights(t, f, s, r) ==
    25 * t.score + 25 * f.score + 25 * s.score + 25 * r.score

\* composite_score, in thousandths
Composite(t, f, s, r) ==
    t.score * Weight("technical") + f.score * Weight("fundamental")
    + s.score * Weight("sentiment") + r.score * Weight("risk")

\* round(x, 1) of a score in tenths: the score itself
ScoreBreakdown(t, f, s, r) ==
    [technical_score |-> t.score, fundamental_score |-> f.score,
     sentiment_score |-> s.score, risk_score |-> r.score]

\* current_price = quote.get('price', 0) if quote else 0
CurrentPrice(q) == IF q.present THEN q.price ELSE 0

\* risk_multipliers, in hundredths
Upside(level) ==
    CASE level = "LOW" -> 115
      [] level = "HIGH" -> 120
      [] level = "VERY_HIGH" -> 130
      [] OTHER -> 112

DownsideModerateAsHigh(level) ==
    CASE level = "LOW" -> 95
      [] level = "HIGH" -> 88
      [] level = "VERY_HIGH" -> 80
      [] OTHER -> 88

Downside(level) ==
    CASE level = "LOW" -> 95
      [] level = "HIGH" -> 88
      [] level = "VERY_HIGH" -> 80
      [] OTHER -> 93

HorizonFundamentalFirst(w, tech, fund, target, stoploss) ==
    LET blended == w * fund + (100 - w) * tech
    IN  [signal |-> DetermineSignal(blended), target |-> target,
         stoploss |-> stoploss, score |-> RoundDiv(blended, 100)]

\* one horizon: the blend w * tech + (100 - w) * fund, in thousandths
Horizon(w, tech, fund, target, stoploss) ==
    LET blended == w * tech + (100 - w) * fund
    IN  [signal |-> DetermineSignal(blended), target |-> target,
         stoploss |-> stoploss, score |-> RoundDiv(blended, 100)]

NoHorizon == [signal |-> "", target |-> 0, stoploss |-> 0, score |-> 0]

GenerateTimeframeRecommendationsZeroFilled(q, technical, fundamental, risk) ==
    LET p == CurrentPrice(q)
        up == Upside(risk.risk_level)
        down == Downside(risk.risk_level)
        T == technical.score
        F == fundamental.score
    IN  [keys |-> {"intraday", "short_term", "medium_term", "long_term"},
         intraday |-> Horizon(80, T, F, RoundDiv(p * 102, 100),
                              RoundDiv(p * 985, 1000)),
         short_term |-> Horizon(60, T, F, RoundDiv(p * 108, 100),
                                RoundDiv(p * 95, 100)),
         medium_term |-> Horizon(40, T, F, RoundDiv(p * up, 100),
                                 RoundDiv(p * down, 100)),
         long_term |-> Horizon(20, T, F, RoundDiv(p * up * up, 10000),
                               RoundDiv(p * down, 100))]

\* _generate_timeframe_recommendations: {} without a current price
GenerateTimeframeRecommendations(q, technical, fundamental, risk) ==
    LET p == CurrentPrice(q)
        up == Upside(risk.risk_level)
        down == Downside(risk.risk_level)
        T == technical.score
        F == fundamental.score
    IN  IF p = 0
        THEN [keys |-> {}, intraday |-> NoHorizon, short_term |-> NoHorizon,
              medium_term |-> NoHorizon, long_term |-> NoHorizon]
        ELSE [keys |-> {"intraday", "short_term", "medium_term", "long_term"},
              intraday |-> Horizon(80, T, F, RoundDiv(p * 102, 100),
                                   RoundDiv(p * 985, 1000)),
              short_term |-> Horizon(60, T, F, RoundDiv(p * 108, 100),
                                     RoundDiv(p * 95, 100)),
              medium_term |-> Horizon(40, T, F, RoundDiv(p * up, 100),
                                      RoundDiv(p * down, 100)),
              long_term |-> Horizon(20, T, F, RoundDiv(p * up * up, 10000),
                                    RoundDiv(p * down, 100))]

\* _generate_action_summary divides upside by risk = (price - stoploss) /
\* price * 100 for a BUY or STRONG BUY: ZeroDivisionError when it is 0.
ActionSummaryRaises(signal, recs, q) ==
    /\ CurrentPrice(q) # 0
    /\ signal \in {"STRONG BUY", "BUY"}
    /\ recs.medium_term.stoploss = CurrentPrice(q)

\* which of the four sentences _generate_action_summary returns
GenerateActionSummary(signal, recs, q) ==
    IF CurrentPrice(q) = 0 THEN "await"
    ELSE IF signal \in {"STRONG BUY", "BUY"} THEN "buy"
    ELSE IF signal = "HOLD" THEN "hold"
    ELSE "exit"

\* _generate_verdict: the first special verdict that applies, else the
\* verdict of the signal.  `composite` is the parameter `score`, in
\* thousandths; the factors are in tenths.
GenerateVerdict(signal, composite, factors) ==
    IF factors.quality > 700 /\ factors.value > 600 THEN "Hidden Gem"
    ELSE IF factors.quality > 700 /\ factors.growth > 700 THEN "Quality Compounder"
    ELSE IF factors.value < 400 /\ factors.growth < 400 THEN "Value Trap"
    ELSE IF signal = "STRONG BUY" /\ composite > 80000 THEN "Strong Momentum"
    ELSE IF signal = "BUY" /\ factors.value > 800 THEN "Deep Value"
    ELSE IF factors.safety > 800 /\ factors.quality > 700 THEN "Safe Haven"
    ELSE IF factors.growth > 800 /\ factors.safety < 400
    THEN "High Risk High Reward"
    ELSE IF signal = "STRONG BUY" THEN "Strong Buy"
    ELSE IF signal = "BUY" THEN "Buy"
    ELSE IF signal = "SELL" THEN "Sell"
    ELSE IF signal = "STRONG SELL" THEN "Avoid"
    ELSE "Hold & Watch"

RiskMetrics(risk) ==
    [keys |-> risk.keys, volatility_30d |-> risk.volatility_30d,
     beta |-> risk.beta, max_drawdown |-> risk.max_drawdown,
     risk_level |-> risk.risk_level, var_95 |-> risk.var_95]

(***************************************************************************)
(* _identify_key_factors.  A factor is [factor, impact, score], the score  *)
(* in whole points; the description is left out.                           *)
(***************************************************************************)
\* d.get(key) as the assessments below compare it: the value under the key
\* and, without the key, None, written "" as it equals no assessment
Get(d, key) == IF key \in DOMAIN d THEN d[key] ELSE ""

Factor(name, impact, points) ==
    [factor |-> name, impact |-> impact, score |-> points]

\* `if indicators.get('rsi'):` and its two branches, on the rsi in tenths
RsiFactors(indicators) ==
    IF "rsi" \in indicators.keys /\ indicators.rsi # 0
    THEN (IF indicators.rsi < 300
          THEN <<Factor("RSI Oversold", "positive", 85)>>
          ELSE IF indicators.rsi > 700
          THEN <<Factor("RSI Overbought", "negative", 25)>>
          ELSE <<>>)
    ELSE <<>>

MacdFactors(indicators) ==
    IF "macd_trend" \in indicators.keys /\ indicators.macd_trend = "BULLISH"
    THEN <<Factor("MACD Bullish Crossover", "positive", 70)>>
    ELSE IF "macd_trend" \in indicators.keys /\ indicators.macd_trend = "BEARISH"
    THEN <<Factor("MACD Bearish Signal", "negative", 30)>>
    ELSE <<>>

PeFactors(metrics) ==
    IF Get(metrics, "pe_assessment") = "SIGNIFICANTLY_UNDERVALUED"
    THEN <<Factor("Attractive Valuation", "positive", 90)>>
    ELSE IF Get(metrics, "pe_assessment") = "SIGNIFICANTLY_OVERVALUED"
    THEN <<Factor("High Valuation", "negative", 20)>>
    ELSE <<>>

RoeFactors(metrics) ==
    IF Get(metrics, "roe_assessment") = "EXCELLENT"
    THEN <<Factor("Strong Profitability", "positive", 85)>>
    ELSE IF Get(metrics, "roe_assessment") = "POOR"
    THEN <<Factor("Weak Profitability", "negative", 25)>>
    ELSE <<>>

DeFactors(metrics) ==
    IF Get(metrics, "de_assessment") = "DEBT_FREE"
    THEN <<Factor("Debt-Free Balance Sheet", "positive", 90)>>
    ELSE IF Get(metrics, "de_assessment") = "HIGH_DEBT"
    THEN <<Factor("High Leverage Concern", "negative", 20)>>
    ELSE <<>>

RiskFactors(risk) ==
    IF risk.risk_level = "LOW"
    THEN <<Factor("Low Volatility", "positive", 75)>>
    ELSE IF risk.risk_level \in {"HIGH", "VERY_HIGH"}
    THEN <<Factor("High Volatility", "negative", 35)>>
    ELSE <<>>

\* key=lambda x: abs(x['score'] - 50)
Deviation(x) == IF x.score >= 50 THEN x.score - 50 ELSE 50 - x.score

RECURSIVE InsertByScore(_, _)
InsertByScore(sorted, x) ==
    IF sorted = <<>> THEN <<x>>
    ELSE IF Head(sorted).score >= x.score
    THEN <<Head(sorted)>> \o InsertByScore(Tail(sorted), x)
    ELSE <<x>> \o sorted

\* x goes behind every factor whose deviation is at least its own
RECURSIVE InsertByDeviation(_, _)
InsertByDeviation(sorted, x) ==
    IF sorted = <<>> THEN <<x>>
    ELSE IF Deviation(Head(sorted)) >= Deviation(x)
    THEN <<Head(sorted)>> \o InsertByDeviation(Tail(sorted), x)
    ELSE <<x>> \o sorted

RECURSIVE SortByScore(_, _)
SortByScore(sorted, rest) ==
    IF rest = <<>> THEN sorted
    ELSE SortByScore(InsertByScore(sorted, Head(rest)), Tail(rest))

\* factors.sort(key=..., reverse=True): list.sort is stable, and with
\* reverse=True equal keys still keep their original order
RECURSIVE SortByDeviation(_, _)
SortByDeviation(sorted, rest) ==
    IF rest = <<>> THEN sorted
    ELSE SortByDeviation(InsertByDeviation(sorted, Head(rest)), Tail(rest))

IdentifyKeyFactors(technical, fundamental, sentiment, risk) ==
    LET factors == RsiFactors(technical.indicators)
                   \o MacdFactors(technical.indicators)
                   \o PeFactors(fundamental.metrics)
                   \o RoeFactors(fundamental.metrics)
                   \o DeFactors(fundamental.metrics)
                   \o RiskFactors(risk)
    IN  FirstN(SortByDeviation(<<>>, factors), 6)

(***************************************************************************)
(* Input domains.  A price series is generated from its length n, a        *)
(* two-step pattern of moves (+1 up, 0 flat, -1 down), the size of a move  *)
(* in percent, a volume profile and whether the second bar lacks a close.  *)
(***************************************************************************)
Base == 100 * 100

Moves == {-1, 0, 1}
Patterns == {<<a, b>> : a \in Moves, b \in Moves}
VolumeProfiles == {"none", "steady", "spike"}

StepClose(c, d, k) == c + d * ((c * k) \div 100)

RECURSIVE GenCloses(_, _, _)
GenCloses(n, pat, k) ==
    IF n = 0 THEN <<>>
    ELSE IF n = 1 THEN <<Base>>
    ELSE LET prev == GenCloses(n - 1, pat, k)
         IN  Append(prev, StepClose(prev[n - 1], pat[((n - 2) % 2) + 1], k))

VolumeAt(i, n, profile) ==
    CASE profile = "none" -> 0
      [] profile = "steady" -> 1000
      [] profile = "spike" -> IF i = n THEN 2000 ELSE 1000

\* a one-bar shock on the bar 14 deltas before the last one: 0 none, 1 half as
\* much again, -1 halved
ShockClose(c, shock) ==
    IF shock = 1 THEN c + c \div 2 ELSE IF shock = -1 THEN c \div 2 ELSE c

Bars(n, pat, k, profile, gap, shock) ==
    LET closes == GenCloses(n, pat, k)
    IN  [i \in 1..n |->
            [close |-> IF gap /\ i = 2 THEN 0
                       ELSE IF i = n - 14 THEN ShockClose(closes[i], shock)
                       ELSE closes[i],
             volume |-> VolumeAt(i, n, profile)]]

AllSeries ==
    {Bars(n, pat, k, profile, gap, shock) :
        n \in 0..MaxBars, pat \in Patterns, k \in 1..MaxStep,
        profile \in VolumeProfiles, gap \in BOOLEAN, shock \in {-1, 0, 1}}

\* the closes are 25 and each is 1% above the previous one
IsRising25(hd) ==
    LET closes == ClosesOf(hd)
    IN  /\ Len(closes) = 25
        /\ \A i \in 2..25 : closes[i] = StepClose(closes[i - 1], 1, 1)

NoQuote == [present |-> FALSE, price |-> 0, change_percent |-> 0]

TechQuotes ==
    {NoQuote} \cup {[present |-> TRUE, price |-> Base, change_percent |-> c] :
                       c \in (-MaxChange)..MaxChange}

NoFundamentals ==
    [pe |-> 0, pb |-> 0, roe |-> 0, roce |-> 0, de |-> 0, div_yield |-> 0,
     mcap |-> ""]

AllFundamentals ==
    [pe : {-500, 0, 1000, 1500, 2000, 2500, 3000, 4000},
     pb : {0, 50, 200, 256, 257, 1200},
     roe : {-500, 0, 1300, 1800, 3000},
     roce : {-500, 0, 1600, 2000, 3500},
     de : {0, 20, 50, 180, 300},
     div_yield : {0, 150, 300},
     mcap : {"", "Large Cap", "Penny Stock"}]

NoSentiment == [present |-> FALSE, bullish |-> 0, bearish |-> 0, neutral |-> 0]

AllSentiment ==
    {NoSentiment} \cup
    [present : {TRUE}, bullish : 0..MaxCount, bearish : 0..MaxCount,
     neutral : 0..MaxCount]

NewsSentiments == {"positive", "negative", "neutral"}
AllNews == UNION {[1..n -> NewsSentiments] : n \in 0..MaxNews}

\* the factor scores of _calculate_confidence, in tenths
GridScores == {(i * 1000) \div ScoreGrid : i \in 0..ScoreGrid}
AllScoreLists == [1..4 -> GridScores]

\* the scores of _determine_signal, in thousandths: every tenth of a point
\* and the neighbours of each threshold
AllSignalScores ==
    {100 * i : i \in 0..1000}
    \cup {t + d : t \in {80000, 65000, 45000, 30000}, d \in {-1, 1}}

(***************************************************************************)
(* Inputs of the whole engine: a coarser product of the domains above.     *)
(***************************************************************************)
EngineSeries ==
    {Bars(n, pat, k, profile, FALSE, 0) :
        n \in 0..MaxBars, pat \in {<<1, 1>>, <<-1, -1>>, <<1, -1>>},
        k \in {1, MaxStep}, profile \in {"none", "spike"}}
    \cup
    {Bars(n, pat, 1, "spike", FALSE, shock) :
        n \in 0..MaxBars, pat \in {<<1, 1>>, <<-1, -1>>}, shock \in {-1, 1}}

EngineQuotes ==
    {NoQuote,
     [present |-> TRUE, price |-> 0, change_percent |-> MaxChange],
     [present |-> TRUE, price |-> 1, change_percent |-> MaxChange],
     [present |-> TRUE, price |-> Base, change_percent |-> MaxChange],
     [present |-> TRUE, price |-> Base, change_percent |-> -MaxChange]}

EngineFundamentals ==
    {NoFundamentals,
     [pe |-> 1000, pb |-> 80, roe |-> 3000, roce |-> 3500, de |-> 5,
      div_yield |-> 300, mcap |-> "Large Cap"],
     [pe |-> 2500, pb |-> 300, roe |-> 1300, roce |-> 1600, de |-> 120,
      div_yield |-> 150, mcap |-> "Mid Cap"],
     [pe |-> 5000, pb |-> 1200, roe |-> -500, roce |-> -500, de |-> 300,
      div_yield |-> 0, mcap |-> "Penny Stock"]}

Bullish811 == [present |-> TRUE, bullish |-> 8, bearish |-> 1, neutral |-> 1]
Bearish181 == [present |-> TRUE, bullish |-> 1, bearish |-> 8, neutral |-> 1]

EngineSentiment ==
    {<<NoSentiment, <<>>>>,
     <<Bullish811, <<"positive">>>>,
     <<Bullish811, <<"negative">>>>,
     <<Bearish181, <<"negative">>>>}

(***************************************************************************)
(* The engine: one call of generate_recommendation on the arguments.       *)
(***************************************************************************)
\* no circuit breaker constructed, no wrapped call in progress
NoUtils == breaker = None /\ now = 0 /\ wrapper = None

Unassigned ==
    /\ pc = "call"
    /\ technical_analysis = None
    /\ fundamental_analysis = None
    /\ sentiment_analysis = None
    /\ risk_analysis = None
    /\ composite_score = 0
    /\ recommendation = None
    /\ ret = None

Init ==
    /\ engine = recommendation_engine
    /\ NoUtils
    /\ quote \in EngineQuotes
    /\ historical_data \in EngineSeries
    /\ fundamentals \in EngineFundamentals
    /\ \E sn \in EngineSentiment : sentiment_data = sn[1] /\ news_items = sn[2]
    /\ scores = <<>>
    /\ score = 0
    /\ Unassigned

args == <<engine, quote, historical_data, fundamentals, sentiment_data,
          news_items, scores, score>>

\* the dict generate_recommendation returns (the narrative fields aside)
Recommendation(q, t, f, s, r, composite, recs) ==
    [overall_signal |-> DetermineSignal(composite),
     composite_score |-> RoundDiv(composite, 100),
     confidence |-> RoundDiv(CalculateConfidence(
                        <<t.score, f.score, s.score, r.score>>), 10),
     score_breakdown |-> ScoreBreakdown(t, f, s, r),
     technical_indicators |-> t.indicators,
     fundamental_metrics |-> f.metrics,
     factor_ratings |-> f.factors,
     timeframe_recommendations |-> recs,
     key_factors |-> IdentifyKeyFactors(t, f, s, r),
     ai_verdict |-> GenerateVerdict(DetermineSignal(composite), composite,
                                    f.factors),
     risk_metrics |-> RiskMetrics(r),
     action_summary |-> GenerateActionSummary(DetermineSignal(composite), recs, q)]

GenerateRecommendation ==
    /\ pc = "call"
    /\ LET t == AnalyzeTechnicals(quote, historical_data)
           f == AnalyzeFundamentals(fundamentals)
           s == AnalyzeSentiment(sentiment_data, news_items)
           r == AnalyzeRisk(quote, historical_data, fundamentals)
           composite == Composite(t, f, s, r)
           recs == GenerateTimeframeRecommendations(quote, t, f, r)
       IN  IF t.raised
           THEN /\ pc' = "raised"
                /\ UNCHANGED <<technical_analysis, fundamental_analysis,
                               sentiment_analysis, risk_analysis,
                               composite_score, recommendation>>
           ELSE /\ technical_analysis' = t
                /\ fundamental_analysis' = f
                /\ sentiment_analysis' = s
                /\ risk_analysis' = r
                /\ composite_score' = composite
                /\ IF ActionSummaryRaises(DetermineSignal(composite), recs, quote)
                   THEN pc' = "raised" /\ UNCHANGED recommendation
                   ELSE /\ pc' = "returned"
                        /\ recommendation' =
                              Recommendation(quote, t, f, s, r, composite, recs)
    /\ UNCHANGED <<args, utils, ret>>

Next == GenerateRecommendation

Spec == Init /\ [][Next]_vars

(***************************************************************************)
(* The analyzers and helpers called on their own.                          *)
(***************************************************************************)
InitTechnicals ==
    /\ engine = recommendation_engine
    /\ NoUtils
    /\ quote \in TechQuotes
    /\ historical_data \in AllSeries
    /\ fundamentals = NoFundamentals
    /\ sentiment_data = NoSentiment
    /\ news_items = <<>>
    /\ scores = <<>>
    /\ score = 0
    /\ Unassigned

CallAnalyzeTechnicals ==
    /\ pc = "call"
    /\ LET t == AnalyzeTechnicals(quote, historical_data)
       IN  IF t.raised
           THEN pc' = "raised" /\ UNCHANGED technical_analysis
           ELSE pc' = "returned" /\ technical_analysis' = t
    /\ UNCHANGED <<args, utils, fundamental_analysis, sentiment_analysis, risk_analysis,
                   composite_score, recommendation, ret>>

SpecTechnicals == InitTechnicals /\ [][CallAnalyzeTechnicals]_vars

InitFundamentals ==
    /\ engine = recommendation_engine
    /\ NoUtils
    /\ quote = NoQuote
    /\ historical_data = <<>>
    /\ fundamentals \in AllFundamentals
    /\ sentiment_data = NoSentiment
    /\ news_items = <<>>
    /\ scores = <<>>
    /\ score = 0
    /\ Unassigned

\* _analyze_fundamentals, which calls the four _score_* methods
CallAnalyzeFundamentals ==
    /\ pc = "call"
    /\ pc' = "returned"
    /\ fundamental_analysis' = AnalyzeFundamentals(fundamentals)
    /\ UNCHANGED <<args, utils, technical_analysis, sentiment_analysis, risk_analysis,
                   composite_score, recommendation, ret>>

SpecFundamentals == InitFundamentals /\ [][CallAnalyzeFundamentals]_vars

InitSentiment ==
    /\ engine = recommendation_engine
    /\ NoUtils
    /\ quote = NoQuote
    /\ historical_data = <<>>
    /\ fundamentals = NoFundamentals
    /\ sentiment_data \in AllSentiment
    /\ news_items \in AllNews
    /\ scores = <<>>
    /\ score = 0
    /\ Unassigned

CallAnalyzeSentiment ==
    /\ pc = "call"
    /\ pc' = "returned"
    /\ sentiment_analysis' = AnalyzeSentiment(sentiment_data, news_items)
    /\ UNCHANGED <<args, utils, technical_analysis, fundamental_analysis, risk_analysis,
                   composite_score, recommendation, ret>>

SpecSentiment == InitSentiment /\ [][CallAnalyzeSentiment]_vars

InitConfidence ==
    /\ engine = recommendation_engine
    /\ NoUtils
    /\ quote = NoQuote
    /\ historical_data = <<>>
    /\ fundamentals = NoFundamentals
    /\ sentiment_data = NoSentiment
    /\ news_items = <<>>
    /\ scores \in AllScoreLists
    /\ score = 0
    /\ Unassigned

CallCalculateConfidence ==
    /\ pc = "call"
    /\ pc' = "returned"
    /\ ret' = [confidence |-> CalculateConfidence(scores)]
    /\ UNCHANGED <<args, utils, technical_analysis, fundamental_analysis,
                   sentiment_analysis, risk_analysis, composite_score,
                   recommendation>>

SpecConfidence == InitConfidence /\ [][CallCalculateConfidence]_vars

InitSignal ==
    /\ engine = recommendation_engine
    /\ NoUtils
    /\ quote = NoQuote
    /\ historical_data = <<>>
    /\ fundamentals = NoFundamentals
    /\ sentiment_data = NoSentiment
    /\ news_items = <<>>
    /\ scores = <<>>
    /\ score \in AllSignalScores
    /\ Unassigned

CallDetermineSignal ==
    /\ pc = "call"
    /\ pc' = "returned"
    /\ ret' = [signal |-> DetermineSignal(score)]
    /\ UNCHANGED <<args, utils, technical_analysis, fundamental_analysis,
                   sentiment_analysis, risk_analysis, composite_score,
                   recommendation>>

SpecSignal == InitSignal /\ [][CallDetermineSignal]_vars

\* the inputs of _analyze_risk: the volume plays no part in it
RiskSeries ==
    {Bars(n, pat, k, "steady", gap, shock) :
        n \in 0..MaxBars, pat \in Patterns, k \in 1..MaxStep,
        gap \in BOOLEAN, shock \in {-1, 0, 1}}

\* {'de': 0.05, 'roce': 20}
CashRich == [NoFundamentals EXCEPT !.de = 5, !.roce = 2000]

RiskFundamentals ==
    {[CashRich EXCEPT !.de = d, !.mcap = m] :
        d \in {5, 150, 151}, m \in {"", "Large Cap", "Mid Cap", "Penny Stock"}}

InitRisk ==
    /\ engine = recommendation_engine
    /\ NoUtils
    /\ quote = NoQuote
    /\ historical_data \in RiskSeries
    /\ fundamentals \in RiskFundamentals
    /\ sentiment_data = NoSentiment
    /\ news_items = <<>>
    /\ scores = <<>>
    /\ score = 0
    /\ Unassigned

CallAnalyzeRisk ==
    /\ pc = "call"
    /\ pc' = "returned"
    /\ risk_analysis' = AnalyzeRisk(quote, historical_data, fundamentals)
    /\ UNCHANGED <<args, utils, technical_analysis, fundamental_analysis,
                   sentiment_analysis, composite_score, recommendation, ret>>

SpecRisk == InitRisk /\ [][CallAnalyzeRisk]_vars

(***************************************************************************)
(* _generate_timeframe_recommendations followed by                        *)
(* _generate_action_summary, as generate_recommendation calls them.  The   *)
(* analyses are arguments here; `score` is the composite score whose       *)
(* signal is passed to the summary.  round(price * factor, 2) rounds the   *)
(* float product: a product that falls exactly on half a hundredth goes up *)
(* or down with its binary value, so the prices drawn here are the ones    *)
(* (not multiples of 0.05, and 100.00) on which no product does.           *)
(***************************************************************************)
RiskLevels == {"LOW", "MODERATE", "HIGH", "VERY_HIGH"}

TimeframeQuotes ==
    {NoQuote, [present |-> TRUE, price |-> 0, change_percent |-> 0]}
    \cup {[present |-> TRUE, price |-> p, change_percent |-> 0] :
              p \in {1, Base} \cup {Base + 5 * c + 1 : c \in (-MaxChange)..MaxChange}}

\* one composite score for each signal
SummaryScores == {20000, 40000, 50000, 70000, 90000}

InitTimeframes ==
    /\ engine = recommendation_engine
    /\ NoUtils
    /\ quote \in TimeframeQuotes
    /\ historical_data = <<>>
    /\ fundamentals = NoFundamentals
    /\ sentiment_data = NoSentiment
    /\ news_items = <<>>
    /\ scores = <<>>
    /\ score \in SummaryScores
    /\ pc = "call"
    /\ technical_analysis \in {[score |-> x] : x \in GridScores}
    /\ fundamental_analysis \in {[score |-> x] : x \in GridScores}
    /\ sentiment_analysis = None
    /\ risk_analysis \in {[risk_level |-> l] : l \in RiskLevels}
    /\ composite_score = 0
    /\ recommendation = None
    /\ ret = None

analyses == <<technical_analysis, fundamental_analysis, sentiment_analysis,
              risk_analysis, composite_score, recommendation>>

CallGenerateTimeframeRecommendations ==
    /\ pc = "call"
    /\ pc' = "summary"
    /\ ret' = [timeframes |-> GenerateTimeframeRecommendations(
                                 quote, technical_analysis,
                                 fundamental_analysis, risk_analysis),
               action_summary |-> ""]
    /\ UNCHANGED <<args, utils, analyses>>

CallGenerateActionSummary ==
    /\ pc = "summary"
    /\ IF ActionSummaryRaises(DetermineSignal(score), ret.timeframes, quote)
       THEN pc' = "raised" /\ UNCHANGED ret
       ELSE /\ pc' = "returned"
            /\ ret' = [ret EXCEPT !.action_summary =
                          GenerateActionSummary(DetermineSignal(score),
                                                ret.timeframes, quote)]
    /\ UNCHANGED <<args, utils, analyses>>

SpecTimeframes ==
    InitTimeframes
    /\ [][CallGenerateTimeframeRecommendations \/ CallGenerateActionSummary]_vars

(***************************************************************************)
(* _identify_key_factors called on its own: the analyses are arguments.    *)
(***************************************************************************)
\* the reported rsi (tenths; 0 is the rsi 0.0) and whether it is reported
KeyFactorIndicators ==
    {[NoIndicators EXCEPT !.keys = ks, !.data_available = TRUE, !.rsi = r,
                          !.macd_trend = m] :
        ks \in SUBSET {"rsi", "macd_trend"},
        r \in {0, 250, 300, 500, 700, 750, 1000},
        m \in {"BULLISH", "BEARISH"}}

\* the metrics with the assessment keys the factors look for ("" for a key
\* that is missing or holds another value)
KeyFactorMetrics ==
    [pe_assessment : {"", "SIGNIFICANTLY_UNDERVALUED", "SIGNIFICANTLY_OVERVALUED"},
     roe_assessment : {"", "EXCELLENT", "POOR"},
     de_assessment : {"", "DEBT_FREE", "HIGH_DEBT"}]

InitKeyFactors ==
    /\ engine = recommendation_engine
    /\ NoUtils
    /\ quote = NoQuote
    /\ historical_data = <<>>
    /\ fundamentals = NoFundamentals
    /\ sentiment_data = NoSentiment
    /\ news_items = <<>>
    /\ scores = <<>>
    /\ score = 0
    /\ pc = "call"
    /\ technical_analysis \in {[indicators |-> i] : i \in KeyFactorIndicators}
    /\ fundamental_analysis \in {[metrics |-> m] : m \in KeyFactorMetrics}
    /\ sentiment_analysis = None
    /\ risk_analysis \in {[risk_level |-> l] : l \in RiskLevels}
    /\ composite_score = 0
    /\ recommendation = None
    /\ ret = None

CallIdentifyKeyFactors ==
    /\ pc = "call"
    /\ pc' = "returned"
    /\ ret' = [key_factors |-> IdentifyKeyFactors(
                                  technical_analysis, fundamental_analysis,
                                  sentiment_analysis, risk_analysis)]
    /\ UNCHANGED <<args, utils, analyses>>

SpecKeyFactors == InitKeyFactors /\ [][CallIdentifyKeyFactors]_vars

(***************************************************************************)
(* _analyze_technicals on series long enough for the 50-bar average.  A    *)
(* series moves one way up to a turning bar and another way after it, so   *)
(* that the close can stand above one average and below the other.         *)
(***************************************************************************)
RECURSIVE TurnCloses(_, _, _, _, _)
TurnCloses(n, before, after, turn, k) ==
    IF n = 0 THEN <<>>
    ELSE IF n = 1 THEN <<Base>>
    ELSE LET prev == TurnCloses(n - 1, before, after, turn, k)
         IN  Append(prev, StepClose(prev[n - 1],
                                    IF n <= turn THEN before ELSE after, k))

TurnBars(n, before, after, turn, k) ==
    LET closes == TurnCloses(n, before, after, turn, k)
    IN  [i \in 1..n |-> [close |-> closes[i], volume |-> 0]]

LongLengths == {19, 20, 49, 50, MaxLongBars}

\* A series that ends flat is flat throughout, at 100.00 (see AboveMa).
LongSeries ==
    {TurnBars(n, mv[1], mv[2], n - back, k) :
        n \in LongLengths,
        mv \in {m \in Patterns : m[2] # 0 \/ m[1] = 0},
        back \in {10, 25}, k \in 1..MaxStep}

InitLongSeries ==
    /\ engine = recommendation_engine
    /\ NoUtils
    /\ quote \in TechQuotes
    /\ historical_data \in LongSeries
    /\ fundamentals = NoFundamentals
    /\ sentiment_data = NoSentiment
    /\ news_items = <<>>
    /\ scores = <<>>
    /\ score = 0
    /\ Unassigned

SpecLongSeries == InitLongSeries /\ [][CallAnalyzeTechnicals]_vars

(***************************************************************************)
(* Several invocations of generate_recommendation on the one shared        *)
(* instance, interleaved between the statements of lines 72-114.  Here     *)
(* every argument and every local is a function of the invocation: each    *)
(* invocation has its own frame; `engine` is the one thing they share.     *)
(* ret[i] is the local timeframe_recs.                                     *)
(***************************************************************************)
Invocations == 1..MaxInvocations

\* the arguments of one invocation
Call(q, hd, data, sd, items) ==
    [quote |-> q, historical_data |-> hd, fundamentals |-> data,
     sentiment_data |-> sd, news_items |-> items]

ConcurrentCalls ==
    {Call(NoQuote, <<>>, NoFundamentals, NoSentiment, <<>>),
     Call([present |-> TRUE, price |-> Base, change_percent |-> MaxChange],
          Bars(MaxBars, <<1, -1>>, 1, "spike", FALSE, 0),
          [pe |-> 1000, pb |-> 80, roe |-> 3000, roce |-> 3500, de |-> 5,
           div_yield |-> 300, mcap |-> "Large Cap"],
          Bullish811, <<"positive">>),
     Call([present |-> TRUE, price |-> 1, change_percent |-> -MaxChange],
          Bars(MaxBars, <<-1, -1>>, MaxStep, "none", FALSE, 0),
          [pe |-> 5000, pb |-> 1200, roe |-> -500, roce |-> -500, de |-> 300,
           div_yield |-> 0, mcap |-> "Penny Stock"],
          Bearish181, <<"negative">>),
     Call(NoQuote, Bars(10, <<1, 1>>, 1, "spike", FALSE, 0), NoFundamentals,
          NoSentiment, <<>>),
     Call([present |-> TRUE, price |-> 1, change_percent |-> MaxChange],
          Bars(MaxBars, <<1, 0>>, 1, "steady", FALSE, 0),
          [pe |-> 1000, pb |-> 80, roe |-> 3000, roce |-> 3500, de |-> 5,
           div_yield |-> 300, mcap |-> "Large Cap"],
          Bullish811, <<"positive">>)}

InitConcurrent ==
    /\ engine = recommendation_engine
    /\ NoUtils
    /\ \E calls \in [Invocations -> ConcurrentCalls] :
          /\ quote = [i \in Invocations |-> calls[i].quote]
          /\ historical_data = [i \in Invocations |-> calls[i].historical_data]
          /\ fundamentals = [i \in Invocations |-> calls[i].fundamentals]
          /\ sentiment_data = [i \in Invocations |-> calls[i].sentiment_data]
          /\ news_items = [i \in Invocations |-> calls[i].news_items]
    /\ scores = <<>>
    /\ score = 0
    /\ pc = [i \in Invocations |-> "call"]
    /\ technical_analysis = [i \in Invocations |-> None]
    /\ fundamental_analysis = [i \in Invocations |-> None]
    /\ sentiment_analysis = [i \in Invocations |-> None]
    /\ risk_analysis = [i \in Invocations |-> None]
    /\ composite_score = [i \in Invocations |-> 0]
    /\ recommendation = [i \in Invocations |-> None]
    /\ ret = [i \in Invocations |-> None]

\* technical_analysis = self._analyze_technicals(quote, historical_data)
StepTechnicals(i) ==
    /\ pc[i] = "call"
    /\ LET t == AnalyzeTechnicals(quote[i], historical_data[i])
       IN  IF t.raised
           THEN pc' = [pc EXCEPT ![i] = "raised"] /\ UNCHANGED technical_analysis
           ELSE /\ pc' = [pc EXCEPT ![i] = "fundamentals"]
                /\ technical_analysis' = [technical_analysis EXCEPT ![i] = t]
    /\ UNCHANGED <<args, utils, fundamental_analysis, sentiment_analysis, risk_analysis,
                   composite_score, recommendation, ret>>

\* fundamental_analysis = self._analyze_fundamentals(fundamentals)
StepFundamentals(i) ==
    /\ pc[i] = "fundamentals"
    /\ pc' = [pc EXCEPT ![i] = "sentiment"]
    /\ fundamental_analysis' =
          [fundamental_analysis EXCEPT ![i] = AnalyzeFundamentals(fundamentals[i])]
    /\ UNCHANGED <<args, utils, technical_analysis, sentiment_analysis, risk_analysis,
                   composite_score, recommendation, ret>>

\* sentiment_analysis = self._analyze_sentiment(sentiment_data, news_items)
StepSentiment(i) ==
    /\ pc[i] = "sentiment"
    /\ pc' = [pc EXCEPT ![i] = "risk"]
    /\ sentiment_analysis' =
          [sentiment_analysis EXCEPT
              ![i] = AnalyzeSentiment(sentiment_data[i], news_items[i])]
    /\ UNCHANGED <<args, utils, technical_analysis, fundamental_analysis, risk_analysis,
                   composite_score, recommendation, ret>>

StepRiskOnInstance(i) ==
    /\ pc[i] = "risk"
    /\ pc' = [pc EXCEPT ![i] = "composite"]
    /\ risk_analysis' =
          [j \in Invocations |->
              AnalyzeRisk(quote[i], historical_data[i], fundamentals[i])]
    /\ UNCHANGED <<args, utils, technical_analysis, fundamental_analysis,
                   sentiment_analysis, composite_score, recommendation, ret>>

\* risk_analysis = self._analyze_risk(quote, historical_data, fundamentals)
StepRisk(i) ==
    /\ pc[i] = "risk"
    /\ pc' = [pc EXCEPT ![i] = "composite"]
    /\ risk_analysis' =
          [risk_analysis EXCEPT
              ![i] = AnalyzeRisk(quote[i], historical_data[i], fundamentals[i])]
    /\ UNCHANGED <<args, utils, technical_analysis, fundamental_analysis,
                   sentiment_analysis, composite_score, recommendation, ret>>

\* composite_score = sum of the analyses' scores times self.WEIGHTS
StepComposite(i) ==
    /\ pc[i] = "composite"
    /\ pc' = [pc EXCEPT ![i] = "timeframes"]
    /\ composite_score' =
          [composite_score EXCEPT
              ![i] = technical_analysis[i].score * engine.WEIGHTS["technical"]
                     + fundamental_analysis[i].score * engine.WEIGHTS["fundamental"]
                     + sentiment_analysis[i].score * engine.WEIGHTS["sentiment"]
                     + risk_analysis[i].score * engine.WEIGHTS["risk"]]
    /\ UNCHANGED <<args, utils, technical_analysis, fundamental_analysis,
                   sentiment_analysis, risk_analysis, recommendation, ret>>

\* timeframe_recs = self._generate_timeframe_recommendations(...)
StepTimeframes(i) ==
    /\ pc[i] = "timeframes"
    /\ pc' = [pc EXCEPT ![i] = "summary"]
    /\ ret' = [ret EXCEPT ![i] = GenerateTimeframeRecommendations(
                                    quote[i], technical_analysis[i],
                                    fundamental_analysis[i], risk_analysis[i])]
    /\ UNCHANGED <<args, utils, analyses>>

\* action_summary = self._generate_action_summary(...) and the return
StepReturn(i) ==
    /\ pc[i] = "summary"
    /\ IF ActionSummaryRaises(DetermineSignal(composite_score[i]), ret[i], quote[i])
       THEN pc' = [pc EXCEPT ![i] = "raised"] /\ UNCHANGED recommendation
       ELSE /\ pc' = [pc EXCEPT ![i] = "returned"]
            /\ recommendation' =
                  [recommendation EXCEPT
                      ![i] = Recommendation(
                                 quote[i], technical_analysis[i],
                                 fundamental_analysis[i], sentiment_analysis[i],
                                 risk_analysis[i], composite_score[i], ret[i])]
    /\ UNCHANGED <<args, utils, technical_analysis, fundamental_analysis,
                   sentiment_analysis, risk_analysis, composite_score, ret>>

NextConcurrent ==
    \E i \in Invocations :
        \/ StepTechnicals(i)
        \/ StepFundamentals(i)
        \/ StepSentiment(i)
        \/ StepRisk(i)
        \/ StepComposite(i)
        \/ StepTimeframes(i)
        \/ StepReturn(i)

SpecConcurrent == InitConcurrent /\ [][NextConcurrent]_vars

(***************************************************************************)
(* utils/error_handler.py.  No call of the engine is in progress in the    *)
(* specifications below.                                                   *)
(***************************************************************************)
NoEngineCall ==
    /\ engine = recommendation_engine
    /\ quote = NoQuote
    /\ historical_data = <<>>
    /\ fundamentals = NoFundamentals
    /\ sentiment_data = NoSentiment
    /\ news_items = <<>>
    /\ scores = <<>>
    /\ score = 0
    /\ technical_analysis = None
    /\ fundamental_analysis = None
    /\ sentiment_analysis = None
    /\ risk_analysis = None
    /\ composite_score = 0
    /\ recommendation = None

(***************************************************************************)
(* async_retry_with_backoff: one call of the wrapper.  `wrapper` holds the *)
(* decorator's arguments, the loop variable `attempt`, the local `delay`,  *)
(* and two records of what happened: `outcomes`, what each invocation of   *)
(* func did, and `slept`, the delays passed to asyncio.sleep.  pc is       *)
(* "attempt" at the head of the loop body, "sleep" inside asyncio.sleep.   *)
(***************************************************************************)
CalculateExponentialBackoffUncapped(attempt, base_delay, max_delay) ==
    base_delay * 2^attempt

\* calculate_exponential_backoff
CalculateExponentialBackoff(attempt, base_delay, max_delay) ==
    Min(base_delay * 2^attempt, max_delay)

\* What one invocation of func does: it returns a value, raises an
\* Exception, or raises a BaseException that `except Exception` lets pass
\* (asyncio.CancelledError).
Outcomes ==
    {[kind |-> "return", value |-> v] : v \in {"a", "b"}}
    \cup {[kind |-> "exception", value |-> e] : e \in {"TimeoutError", "ValueError"}}
    \cup {[kind |-> "base_exception", value |-> "CancelledError"]}

BaseDelays == {1, 75, 150}

InitRetry ==
    /\ NoEngineCall
    /\ breaker = None
    /\ now = 0
    /\ \E n \in 0..MaxRetries, b \in BaseDelays :
          wrapper = [max_retries |-> n, base_delay |-> b, attempt |-> 0,
                     delay |-> 0, slept |-> <<>>, outcomes |-> <<>>]
    /\ pc = "attempt"
    /\ ret = None

engine_call == <<args, technical_analysis, fundamental_analysis,
                 sentiment_analysis, risk_analysis, composite_score,
                 recommendation>>

\* one iteration up to its await: `return await func(*args, **kwargs)` and
\* the except clause
Attempt ==
    /\ pc = "attempt"
    /\ wrapper.attempt < wrapper.max_retries
    /\ \E o \in Outcomes :
          LET called == [wrapper EXCEPT !.outcomes = Append(@, o)]
          IN  IF o.kind = "return"
              THEN pc' = "returned" /\ ret' = o /\ wrapper' = called
              ELSE IF o.kind = "base_exception"
                      \/ wrapper.attempt = wrapper.max_retries - 1
              THEN pc' = "raised" /\ ret' = o /\ wrapper' = called
              ELSE /\ pc' = "sleep"
                   /\ wrapper' = [called EXCEPT !.delay =
                                     CalculateExponentialBackoff(
                                         wrapper.attempt, wrapper.base_delay, 300)]
                   /\ UNCHANGED ret
    /\ UNCHANGED <<engine_call, breaker, now>>

\* await asyncio.sleep(delay) completes and the loop moves on
Sleep ==
    /\ pc = "sleep"
    /\ pc' = "attempt"
    /\ wrapper' = [wrapper EXCEPT !.slept = Append(@, wrapper.delay),
                                  !.attempt = @ + 1]
    /\ now' = now + wrapper.delay
    /\ UNCHANGED <<engine_call, breaker, ret>>

\* range(max_retries) is used up without a return or a raise (it is empty
\* for max_retries = 0): the wrapper returns None
FallThrough ==
    /\ pc = "attempt"
    /\ wrapper.attempt >= wrapper.max_retries
    /\ pc' = "returned"
    /\ ret' = None
    /\ UNCHANGED <<engine_call, breaker, now, wrapper>>

NextRetry == Attempt \/ Sleep \/ FallThrough

SpecRetry == InitRetry /\ [][NextRetry]_vars

\* the event loop resumes the wrapper whenever func or the sleep completes
SpecRetryFair == SpecRetry /\ WF_vars(NextRetry)

(***************************************************************************)
(* CircuitBreaker.  `breaker` is the instance (last_failure_time is in     *)
(* seconds, None being written -1), `now` the clock datetime.now() reads,  *)
(* and `ret` the record of the calls made so far: whether func was invoked *)
(* and how the call ended.  func returns, raises an Exception, or raises a *)
(* BaseException that `except Exception` lets pass.                        *)
(***************************************************************************)
Timeouts == 1..2

InitBreaker ==
    /\ NoEngineCall
    /\ wrapper = None
    /\ now = 0
    /\ \E threshold \in 1..MaxThreshold, timeout \in Timeouts :
          breaker = [failure_threshold |-> threshold, timeout |-> timeout,
                     failure_count |-> 0, last_failure_time |-> -1,
                     state |-> "closed"]
    /\ pc = "call"
    /\ ret = <<>>

\* datetime.now() - self.last_failure_time > timedelta(seconds=self.timeout)
TimedOut(b, t) == t - b.last_failure_time > b.timeout

\* the try branch after func has returned
OnSuccessKeepCount(b) ==
    IF b.state = "half_open" THEN [b EXCEPT !.state = "closed"] ELSE b

OnSuccess(b) ==
    IF b.state = "half_open"
    THEN [b EXCEPT !.state = "closed", !.failure_count = 0]
    ELSE b

\* the except branch, entered at time t
OnFailure(b, t) ==
    LET counted == [b EXCEPT !.failure_count = @ + 1, !.last_failure_time = t]
    IN  IF counted.failure_count >= counted.failure_threshold
        THEN [counted EXCEPT !.state = "open"]
        ELSE counted

\* one call of CircuitBreaker.call; func takes d seconds
CircuitBreakerCall ==
    /\ Len(ret) < MaxCalls
    /\ IF breaker.state = "open" /\ ~TimedOut(breaker, now)
       THEN /\ ret' = Append(ret, [invoked |-> FALSE, outcome |-> "raised",
                                   by |-> "Exception"])
            /\ UNCHANGED <<breaker, now>>
       ELSE \E outcome \in {"returned", "Exception", "BaseException"},
               d \in 0..1 :
               LET entered == IF breaker.state = "open"
                              THEN [breaker EXCEPT !.state = "half_open"]
                              ELSE breaker
               IN  /\ now + d <= MaxClock
                   /\ now' = now + d
                   /\ breaker' =
                         CASE outcome = "returned" -> OnSuccess(entered)
                           [] outcome = "Exception" -> OnFailure(entered, now + d)
                           [] outcome = "BaseException" -> entered
                   /\ ret' = Append(ret,
                         [invoked |-> TRUE,
                          outcome |-> IF outcome = "returned" THEN "returned"
                                      ELSE "raised",
                          by |-> IF outcome = "returned" THEN "" ELSE outcome])
    /\ UNCHANGED <<engine_call, wrapper, pc>>

\* time passes between calls
Tick ==
    /\ now < MaxClock
    /\ now' = now + 1
    /\ UNCHANGED <<engine_call, wrapper, pc, breaker, ret>>

NextBreaker == CircuitBreakerCall \/ Tick

SpecBreaker == InitBreaker /\ [][NextBreaker]_vars

(***************************************************************************)
(* Properties.                                                             *)
(***************************************************************************)
InRange(x) == 0 <= x /\ x <= 1000

\* C1: whenever generate_recommendation returns, each of the four factor
\* scores lies in [0,100] (0..1000 tenths) and so does the composite score,
\* both as computed and as reported.
C1_ScoresInRange ==
    pc = "returned" =>
        /\ InRange(technical_analysis.score)
        /\ InRange(fundamental_analysis.score)
        /\ InRange(sentiment_analysis.score)
        /\ InRange(risk_analysis.score)
        /\ 0 <= composite_score /\ composite_score <= 100000
        /\ InRange(recommendation.composite_score)

\* a call whose technical sub-signals add up to more than 100 before the clamp
C1_Witness ==
    /\ pc = "returned"
    /\ TechnicalPoints(quote, historical_data) > 100
    /\ technical_analysis.score = 1000

\* C2: _calculate_confidence of four factor scores in [0,100] returns a value
\* in [40,95] (4000..9500 hundredths).
C2_ConfidenceInRange ==
    pc = "returned" => 4000 <= ret.confidence /\ ret.confidence <= 9500

\* four scores whose standard deviation exceeds 30, where the floor of 40 acts
C2_Witness ==
    /\ pc = "returned"
    /\ StdDev(scores) > 3000
    /\ ret.confidence = 4000

\* C3: generate_recommendation never raises, whatever optional data is
\* missing.
C3_NeverRaises == pc # "raised"

Rank(signal) ==
    CASE signal = "AVOID" -> 0
      [] signal = "SELL" -> 1
      [] signal = "HOLD" -> 2
      [] signal = "BUY" -> 3
      [] signal = "STRONG BUY" -> 4

\* C5: _determine_signal gives STRONG BUY from 80, BUY from 65, HOLD from 45,
\* SELL from 30 and AVOID below (each boundary in the higher class), and no
\* lower score gets a higher-ranked signal.
C5_SignalThresholds ==
    pc = "returned" =>
        /\ ret.signal = "STRONG BUY" <=> score >= 80000
        /\ ret.signal = "BUY" <=> (65000 <= score /\ score < 80000)
        /\ ret.signal = "HOLD" <=> (45000 <= score /\ score < 65000)
        /\ ret.signal = "SELL" <=> (30000 <= score /\ score < 45000)
        /\ ret.signal = "AVOID" <=> score < 30000
        /\ \A a \in AllSignalScores :
              a <= score => Rank(DetermineSignal(a)) <= Rank(ret.signal)

\* a score exactly on a boundary, classified into the higher class
C5_Witness ==
    /\ pc = "returned"
    /\ score \in {80000, 65000, 45000, 30000}
    /\ ret.signal = DetermineSignal(score + 1)
    /\ ret.signal # DetermineSignal(score - 1)

\* C6: the composite score is 0.30 technical + 0.35 fundamental + 0.15
\* sentiment + 0.20 risk of the factor scores reported in score_breakdown,
\* which are the analyses' scores and the ones the confidence is computed
\* from; the weights sum to 1; overall_signal is _determine_signal of the
\* composite.
C6_CompositeFormula ==
    pc = "returned" =>
        LET sb == recommendation.score_breakdown
        IN  /\ composite_score = 30 * sb.technical_score
                                 + 35 * sb.fundamental_score
                                 + 15 * sb.sentiment_score
                                 + 20 * sb.risk_score
            /\ sb.technical_score = technical_analysis.score
            /\ sb.fundamental_score = fundamental_analysis.score
            /\ sb.sentiment_score = sentiment_analysis.score
            /\ sb.risk_score = risk_analysis.score
            /\ Weight("technical") + Weight("fundamental")
               + Weight("sentiment") + Weight("risk") = 100
            /\ recommendation.overall_signal = DetermineSignal(composite_score)
            /\ recommendation.composite_score = RoundDiv(composite_score, 100)
            /\ recommendation.confidence =
                  RoundDiv(CalculateConfidence(
                      <<sb.technical_score, sb.fundamental_score,
                        sb.sentiment_score, sb.risk_score>>), 10)

\* a result whose four factor scores all differ, so that each weight counts
C6_Witness ==
    /\ pc = "returned"
    /\ Cardinality({technical_analysis.score, fundamental_analysis.score,
                    sentiment_analysis.score, risk_analysis.score}) = 4

\* no decline among the trailing (at most 14) deltas of the closes
NoDecline(closes) ==
    \A i \in 1..(Len(closes) - 1) :
        i >= Len(closes) - 14 => closes[i + 1] >= closes[i]

\* C7: whenever an RSI is reported (at least 14 valid closes) and the trailing
\* window has no decline, the reported RSI is exactly 100.
C7_ZeroLossRsiIs100 ==
    (/\ pc = "returned"
     /\ "rsi" \in technical_analysis.indicators.keys
     /\ NoDecline(ClosesOf(historical_data)))
    => technical_analysis.indicators.rsi = 1000

\* C8: with PE <= 0 (zero, negative or absent) the value sub-score is 50 plus
\* the PB adjustment, clamped: the PE term contributes 0.
C8_NonPositivePeContributesNothing ==
    (pc = "returned" /\ fundamentals.pe <= 0) =>
        /\ fundamental_analysis.factors.value
              = 10 * Max(0, Min(100, 50 + PbAdjust(fundamentals.pb)))
        /\ fundamental_analysis.factors.value
              = AnalyzeFundamentals([fundamentals EXCEPT !.pe = 0]).factors.value

\* a negative PE next to a PB below book value: the value sub-score is 70
C8_Witness ==
    /\ pc = "returned"
    /\ fundamentals.pe < 0
    /\ fundamentals.pb = 50
    /\ fundamental_analysis.factors.value = 700

\* C9 as stated: 25 closes each 1% above the previous one give RSI = 100, a
\* reported MACD histogram > 0 and a technical score near 100 (90 or more).
C9_RisingSaturates ==
    (pc = "returned" /\ IsRising25(historical_data)) =>
        /\ technical_analysis.indicators.rsi = 1000
        /\ "macd_histogram" \in technical_analysis.indicators.keys
        /\ technical_analysis.indicators.macd_histogram > 0
        /\ technical_analysis.score >= 900

\* C9 amended: 25 closes each 1% above the previous one give RSI = 100, which
\* is OVERBOUGHT; no MACD is reported (it needs 26 closes); the score is 55,
\* or 60 when the volume is HIGH and the quote's change is positive.
C9_RisingIsOverbought ==
    (pc = "returned" /\ IsRising25(historical_data)) =>
        LET ind == technical_analysis.indicators
            up_day == /\ "volume_signal" \in ind.keys
                      /\ ind.volume_signal = "HIGH"
                      /\ quote.present /\ quote.change_percent > 0
        IN  /\ ind.rsi = 1000
            /\ ind.rsi_signal = "OVERBOUGHT"
            /\ ind.keys \cap {"macd", "macd_signal", "macd_histogram",
                              "macd_trend"} = {}
            /\ ind.ma_20_signal = "ABOVE"
            /\ technical_analysis.score = IF up_day THEN 600 ELSE 550

\* the rising series on a high-volume up day
C9_Witness ==
    /\ pc = "returned"
    /\ IsRising25(historical_data)
    /\ technical_analysis.score = 600

\* bullish / total > 0.7 in the counts
StronglyBullish(sd) ==
    /\ sd.present
    /\ 10 * sd.bullish > 7 * (sd.bullish + sd.bearish + sd.neutral)

\* C10 as stated: the counts bullish 8, bearish 1, neutral 1 give a sentiment
\* score of at least 65.
C10_BullishAtLeast65 ==
    (pc = "returned" /\ sentiment_data = Bullish811) =>
        sentiment_analysis.score >= 650

\* C10 amended: counts with bullish / total > 0.7 get exactly +25 from the
\* count tally, so the score is 75 plus the news tally's adjustment: 75
\* without news items, never below 60, and at least 65 unless the negative
\* news items are more than twice the positive ones.
C10_BullishTallyAdds25 ==
    (pc = "returned" /\ StronglyBullish(sentiment_data)) =>
        LET positive_news == CountOf(news_items, "positive")
            negative_news == CountOf(news_items, "negative")
        IN  /\ sentiment_analysis.score = 750 + 10 * NewsAdjust(news_items)
            /\ sentiment_analysis.score >= 600
            /\ news_items = <<>> => sentiment_analysis.score = 750
            /\ negative_news <= 2 * positive_news
                  => sentiment_analysis.score >= 650

\* the counts 8 / 1 / 1 with one negative news item: the score is 60
C10_Witness ==
    /\ pc = "returned"
    /\ sentiment_data = Bullish811
    /\ news_items = <<"negative">>
    /\ sentiment_analysis.score = 600

\* C11 as stated: fundamentals {de: 0.05, roce: 20} and no price series give
\* the risk level LOW.
C11_CashRichIsLow ==
    (pc = "returned" /\ historical_data = <<>> /\ fundamentals = CashRich)
        => risk_analysis.risk_level = "LOW"

\* C11 amended: without a price series the risk level comes from the
\* fundamentals proxy, which knows the debt/equity only as "above 1.5 or
\* not": {de: 0.05, roce: 20} with no cap tier gives MODERATE and the
\* baseline score 50, with no risk metric reported; the proxy's level is LOW
\* exactly when de <= 1.5 and the cap tier is Large Cap, and VERY_HIGH only
\* for a Penny Stock.
C11_CashRichIsModerate ==
    (pc = "returned" /\ historical_data = <<>>) =>
        /\ fundamentals = CashRich =>
              /\ risk_analysis.risk_level = "MODERATE"
              /\ risk_analysis.score = 500
        /\ risk_analysis.keys = {}
        /\ risk_analysis.risk_level = "LOW"
              <=> (fundamentals.de <= 150 /\ fundamentals.mcap = "Large Cap")
        /\ risk_analysis.risk_level = "VERY_HIGH"
              <=> (fundamentals.de <= 150 /\ fundamentals.mcap = "Penny Stock")

\* the cash-rich snapshot of unknown cap tier, rated MODERATE
C11_Witness ==
    /\ pc = "returned"
    /\ historical_data = <<>>
    /\ fundamentals = CashRich
    /\ risk_analysis.risk_level = "MODERATE"

\* C16: for every series with at least 20 valid closes a volatility is
\* reported, the risk level and the risk score are those of the volatility
\* bucket, and the fundamentals have no influence on the level.
C16_VolatilityFrom20Closes ==
    (pc = "returned" /\ Len(ClosesOf(historical_data)) >= 20) =>
        LET vol == risk_analysis.volatility_30d
        IN  /\ "volatility_30d" \in risk_analysis.keys
            /\ risk_analysis.risk_level = VolatilityLevel(vol)
            /\ risk_analysis.score = 10 * (50 + VolatilityAdjust(vol))
            /\ risk_analysis.risk_level
                  = AnalyzeRisk(quote, historical_data, NoFundamentals).risk_level

AllEqual(xs) == \A i \in 1..Len(xs) : xs[i] = xs[1]

\* C12: whenever the four factor scores are all equal, their standard
\* deviation is 0, the agreement is 100 and _calculate_confidence returns
\* exactly 95 = min(95, 40 + 0.55 * 100).
C12_EqualScoresGive95 ==
    (pc = "returned" /\ AllEqual(scores)) =>
        /\ StdDev(scores) = 0
        /\ ret.confidence = 9500

\* four factor scores of 50
C12_Witness ==
    /\ pc = "returned"
    /\ scores = <<500, 500, 500, 500>>
    /\ ret.confidence = 9500

Abs(x) == IF x >= 0 THEN x ELSE -x

\* C13: for a positive price p and a risk level L, medium_term has target
\* p * upside(L) and stop-loss p * downside(L), long_term has target
\* p * upside(L)^2 and stop-loss p * downside(L), each rounded to two
\* decimals (nearest hundredth), with the table LOW {1.15, 0.95}, MODERATE
\* {1.12, 0.93}, HIGH {1.20, 0.88}, VERY_HIGH {1.30, 0.80}; MODERATE and
\* p = 100 give a medium_term stop-loss of exactly 93.00.
C13_TargetsFollowRiskTable ==
    (pc # "call" /\ CurrentPrice(quote) > 0) =>
        LET p == CurrentPrice(quote)
            L == risk_analysis.risk_level
            up == CASE L = "LOW" -> 115 [] L = "MODERATE" -> 112
                    [] L = "HIGH" -> 120 [] L = "VERY_HIGH" -> 130
            down == CASE L = "LOW" -> 95 [] L = "MODERATE" -> 93
                      [] L = "HIGH" -> 88 [] L = "VERY_HIGH" -> 80
            medium == ret.timeframes.medium_term
            long == ret.timeframes.long_term
        IN  /\ Abs(100 * medium.target - p * up) <= 50
            /\ Abs(100 * medium.stoploss - p * down) <= 50
            /\ Abs(10000 * long.target - p * up * up) <= 5000
            /\ long.stoploss = medium.stoploss
            /\ (L = "MODERATE" /\ p = Base) => medium.stoploss = 9300

\* risk level MODERATE and a price of 100.00: the stop-loss is 93.00
C13_Witness ==
    /\ pc = "returned"
    /\ CurrentPrice(quote) = Base
    /\ risk_analysis.risk_level = "MODERATE"
    /\ ret.timeframes.medium_term.stoploss = 9300
    /\ ret.timeframes.long_term.target = 12544

AllSignals == {"STRONG BUY", "BUY", "HOLD", "SELL", "AVOID"}

C15_ZeroFieldNeverRewarded ==
    pc = "returned" =>
        LET d == fundamentals
            f == fundamental_analysis.factors
        IN  /\ d.pe = 0 => f.value <= 10 * Clamp(50 + PbAdjust(d.pb))
            /\ d.pb = 0 => f.value <= 10 * Clamp(50 + PeAdjust(d.pe))
            /\ d.roe = 0 => f.growth <= 10 * Clamp(50 + RoceAdjust(d.roce))
            /\ d.roce = 0 => f.growth <= 10 * Clamp(50 + RoeAdjust(d.roe))
            /\ (d.roe = 0 \/ d.roce = 0)
                  => f.quality <= 10 * Clamp(50 + McapAdjust(d.mcap))
            /\ d.de = 0 => f.safety <= 10 * Clamp(50 + DivAdjust(d.div_yield))
            /\ d.div_yield = 0 => f.safety <= 10 * Clamp(50 + DeAdjust(d.de))
            /\ d = NoFundamentals
                  => \A x \in {f.value, f.growth, f.safety, f.quality} : x <= 500

\* the place of a factor in the order the factors are generated in:
\* technical (RSI, MACD), fundamental (P/E, ROE, D/E), risk
GenerationOrder(name) ==
    CASE name \in {"RSI Oversold", "RSI Overbought"} -> 1
      [] name \in {"MACD Bullish Crossover", "MACD Bearish Signal"} -> 2
      [] name \in {"Attractive Valuation", "High Valuation"} -> 3
      [] name \in {"Strong Profitability", "Weak Profitability"} -> 4
      [] name \in {"Debt-Free Balance Sheet", "High Leverage Concern"} -> 5
      [] name \in {"Low Volatility", "High Volatility"} -> 6

\* C17: the list _identify_key_factors returns has at most 6 entries, is
\* ordered by non-increasing abs(score - 50), keeps factors of equal
\* deviation in their generation order, and every entry has the impact
\* 'positive' exactly when its score is above 50 and 'negative' exactly when
\* it is below 50.
C17_KeyFactorsSortedTop6 ==
    pc = "returned" =>
        LET kf == ret.key_factors
        IN  /\ Len(kf) <= 6
            /\ \A i \in 1..Len(kf) : \A j \in 1..Len(kf) :
                  i < j =>
                    /\ Abs(kf[i].score - 50) >= Abs(kf[j].score - 50)
                    /\ Abs(kf[i].score - 50) = Abs(kf[j].score - 50)
                          => GenerationOrder(kf[i].factor)
                               < GenerationOrder(kf[j].factor)
            /\ \A i \in 1..Len(kf) :
                  /\ kf[i].impact = "positive" <=> kf[i].score > 50
                  /\ kf[i].impact = "negative" <=> kf[i].score < 50

\* six factors with two ties: P/E before D/E (90, 90), RSI before ROE (85,
\* 85), and the MACD factor, generated second, moved to the end
C17_Witness ==
    /\ pc = "returned"
    /\ Len(ret.key_factors) = 6
    /\ [i \in 1..6 |-> ret.key_factors[i].factor]
          = <<"Attractive Valuation", "Debt-Free Balance Sheet", "RSI Oversold",
              "Strong Profitability", "Low Volatility", "MACD Bullish Crossover">>

\* what generate_recommendation does with these arguments when it runs alone
Alone(q, hd, data, sd, items) ==
    LET t == AnalyzeTechnicals(q, hd)
        f == AnalyzeFundamentals(data)
        s == AnalyzeSentiment(sd, items)
        r == AnalyzeRisk(q, hd, data)
        composite == Composite(t, f, s, r)
        recs == GenerateTimeframeRecommendations(q, t, f, r)
    IN  IF t.raised \/ ActionSummaryRaises(DetermineSignal(composite), recs, q)
        THEN [raised |-> TRUE, recommendation |-> None]
        ELSE [raised |-> FALSE,
              recommendation |-> Recommendation(q, t, f, s, r, composite, recs)]

AloneOf(i) ==
    Alone(quote[i], historical_data[i], fundamentals[i], sentiment_data[i],
          news_items[i])

\* C18: the engine is stateless.  However the invocations on the shared
\* instance interleave, each one ends as it would alone (the same
\* recommendation, or the same exception); the instance keeps its tables
\* WEIGHTS, SIGNAL_THRESHOLDS and BENCHMARKS; and no step changes the
\* instance or an invocation's arguments.
C18_Stateless ==
    /\ [](/\ engine = recommendation_engine
          /\ \A i \in Invocations :
                /\ pc[i] = "returned" =>
                      /\ ~AloneOf(i).raised
                      /\ recommendation[i] = AloneOf(i).recommendation
                /\ pc[i] = "raised" => AloneOf(i).raised)
    /\ [][UNCHANGED <<engine, quote, historical_data, fundamentals,
                      sentiment_data, news_items>>]_vars

\* two invocations with different arguments: the first has returned its
\* recommendation while the second is still between its analyses
C18_Witness ==
    /\ pc[1] = "returned"
    /\ pc[2] \in {"sentiment", "risk", "composite"}
    /\ quote[1] # quote[2]
    /\ historical_data[1] # historical_data[2]
    /\ recommendation[1] = AloneOf(1).recommendation

\* C19: with fewer than 5 bars (or no series) the technical score depends
\* only on the quote's daily change c in percent: 65 if c > 2, 55 if
\* 0 < c <= 2, 45 if -2 <= c < 0, 35 if c < -2, and 50 if c = 0, c is
\* missing or there is no quote; the indicators hold data_available = false
\* and nothing else.
C19_ShortSeriesUsesQuoteOnly ==
    (pc = "returned" /\ Len(historical_data) < 5) =>
        LET c == quote.change_percent
        IN  /\ technical_analysis.score =
                  (IF ~quote.present \/ c = 0 THEN 500
                   ELSE IF c > 2 THEN 650
                   ELSE IF c > 0 THEN 550
                   ELSE IF c < -2 THEN 350
                   ELSE 450)
            /\ technical_analysis.score = AnalyzeTechnicals(quote, <<>>).score
            /\ technical_analysis.indicators.keys = {"data_available"}
            /\ ~technical_analysis.indicators.data_available

\* four bars and a daily change of exactly 2%: the score is 55
C19_Witness ==
    /\ pc = "returned"
    /\ Len(historical_data) = 4
    /\ quote.present /\ quote.change_percent = 2
    /\ technical_analysis.score = 550

\* where the latest close stands against the average of the last n closes:
\* 1 above, -1 below, 0 on it (or fewer than n closes)
MaPosition(closes, n) ==
    IF Len(closes) < n THEN 0
    ELSE IF n * Last(closes) > SumSeq(LastN(closes, n)) THEN 1
    ELSE IF n * Last(closes) < SumSeq(LastN(closes, n)) THEN -1
    ELSE 0

\* what the other indicators add to the baseline 50
OtherPoints(q, hd) ==
    LET closes == ClosesOf(hd)
        n == Len(closes)
    IN  (IF n >= 14 THEN RsiAdjust(CalculateRsi(closes, 14)) ELSE 0)
        + (IF n >= 26 THEN MacdAdjust(CalculateMacd(closes)) ELSE 0)
        + (IF n >= 10 THEN MomentumAdjust(closes) ELSE 0)
        + VolumeAdjust(q, VolumesOf(hd))

\* C20 as stated: each of SMA(20) and SMA(50), once the series has that many
\* closes, adds +10 exactly when the latest close is above it and -10
\* exactly when it is below it (hence nothing when the close is on it).
C20_MaAboveBelow ==
    (pc = "returned" /\ Len(historical_data) >= 5) =>
        LET closes == ClosesOf(historical_data)
        IN  technical_analysis.score =
                10 * Clamp(50 + OtherPoints(quote, historical_data)
                           + 10 * MaPosition(closes, 20)
                           + 10 * MaPosition(closes, 50))

\* C20 amended: each of SMA(20) and SMA(50), independently and only once the
\* series has 20 (50) valid closes, adds +10 exactly when the latest close
\* is strictly above the average and -10 otherwise, that is when the close
\* is below the average or equal to it; the reported signal is ABOVE in the
\* first case and BELOW in the second.
C20_MaAboveOrNot ==
    (pc = "returned" /\ Len(historical_data) >= 5) =>
        LET closes == ClosesOf(historical_data)
            ind == technical_analysis.indicators
            Part(n) == IF Len(closes) < n THEN 0
                       ELSE IF MaPosition(closes, n) = 1 THEN 10 ELSE -10
            Signal(n) == IF MaPosition(closes, n) = 1 THEN "ABOVE" ELSE "BELOW"
        IN  /\ technical_analysis.score =
                  10 * Clamp(50 + OtherPoints(quote, historical_data)
                             + Part(20) + Part(50))
            /\ "ma_20_signal" \in ind.keys <=> Len(closes) >= 20
            /\ "ma_50_signal" \in ind.keys <=> Len(closes) >= 50
            /\ Len(closes) >= 20 => ind.ma_20_signal = Signal(20)
            /\ Len(closes) >= 50 => ind.ma_50_signal = Signal(50)

\* a fall followed by a short recovery: the close is above the 20-bar average
\* and below the 50-bar average, and the two adjustments cancel
C20_Witness ==
    /\ pc = "returned"
    /\ technical_analysis.indicators.ma_20_signal = "ABOVE"
    /\ technical_analysis.indicators.ma_50_signal = "BELOW"
    /\ MaPosition(ClosesOf(historical_data), 20) = 1
    /\ MaPosition(ClosesOf(historical_data), 50) = -1

\* the MACD line after each of the closes 26..n: EMA12 - EMA26 of the series
\* up to that close, in ten-thousandths
MacdSeries(prices) ==
    [j \in 1..(Len(prices) - 25) |->
        CalculateEma(FirstN(prices, 25 + j), 12)
        - CalculateEma(FirstN(prices, 25 + j), 26)]

\* the 9-period EMA of a series of MACD values, seeded with the average of
\* the first nine and smoothed by 2/10, the recurrence of _calculate_ema
RECURSIVE SignalFold(_, _)
SignalFold(ema, rest) ==
    IF rest = <<>> THEN ema
    ELSE SignalFold(ema + (2 * (Head(rest) - ema)) \div 10, Tail(rest))

SignalEma9(series) ==
    SignalFold(SumSeq(FirstN(series, 9)) \div 9, SubSeq(series, 10, Len(series)))

MacdMinusSignalEma(prices) ==
    Last(MacdSeries(prices)) - SignalEma9(MacdSeries(prices))

\* C21: once the series holds the 34 closes that nine MACD values need, the
\* histogram that is scored is the MACD line (EMA12 - EMA26) minus the
\* 9-period EMA of the MACD line series: the trend is BULLISH and the
\* technical score receives +10 exactly when that difference is above 0,
\* BEARISH and -10 otherwise.
C21_HistogramIsMacdMinusSignalEma ==
    (pc = "returned" /\ Len(ClosesOf(historical_data)) >= 34) =>
        LET closes == ClosesOf(historical_data)
            above == MacdMinusSignalEma(closes) > 0
        IN  /\ technical_analysis.indicators.macd_trend =
                  (IF above THEN "BULLISH" ELSE "BEARISH")
            /\ technical_analysis.score =
                  10 * Clamp(TechnicalPoints(quote, historical_data)
                             - MacdAdjust(CalculateMacd(closes))
                             + (IF above THEN 10 ELSE -10))

\* C22: the four horizons blend the technical score T and the fundamental
\* score F of the score breakdown, the very scores that enter the composite:
\* intraday 0.8T + 0.2F, short_term 0.6T + 0.4F, medium_term 0.4T + 0.6F,
\* long_term 0.2T + 0.8F; each horizon's signal is the threshold signal of
\* its own blended score; every horizon score lies between min(T, F) and
\* max(T, F), and the four run monotonically from the T side to the F side.
C22_HorizonsBlendSameScores ==
    (pc = "returned" /\ recommendation.timeframe_recommendations.keys # {}) =>
        LET T == recommendation.score_breakdown.technical_score
            F == recommendation.score_breakdown.fundamental_score
            recs == recommendation.timeframe_recommendations
            h == <<recs.intraday, recs.short_term, recs.medium_term,
                   recs.long_term>>
            w == <<80, 60, 40, 20>>
        IN  /\ T = technical_analysis.score
            /\ F = fundamental_analysis.score
            /\ composite_score =
                   30 * T + 35 * F + 15 * sentiment_analysis.score
                   + 20 * risk_analysis.score
            /\ \A i \in 1..4 :
                  /\ h[i].score = RoundDiv(w[i] * T + (100 - w[i]) * F, 100)
                  /\ h[i].signal = DetermineSignal(w[i] * T + (100 - w[i]) * F)
                  /\ Min(T, F) <= h[i].score
                  /\ h[i].score <= Max(T, F)
            /\ \A i \in 1..3 :
                  /\ T >= F => h[i].score >= h[i + 1].score
                  /\ T <= F => h[i].score <= h[i + 1].score

\* a recommendation whose technical score is above its fundamental score by
\* enough for the intraday and the long-term horizon to carry different
\* signals
C22_Witness ==
    /\ pc = "returned"
    /\ recommendation.timeframe_recommendations.keys # {}
    /\ technical_analysis.score > fundamental_analysis.score
    /\ recommendation.timeframe_recommendations.intraday.score
           > recommendation.timeframe_recommendations.short_term.score
    /\ recommendation.timeframe_recommendations.medium_term.score
           > recommendation.timeframe_recommendations.long_term.score
    /\ recommendation.timeframe_recommendations.intraday.signal
           # recommendation.timeframe_recommendations.long_term.signal

\* the key factors carry a factor of that name and impact
HasFactor(factors, name, impact) ==
    \E i \in 1..Len(factors) :
        factors[i].factor = name /\ factors[i].impact = impact

\* C23: whenever the technical analysis of the series yields an RSI below 30
\* (rsi_signal OVERSOLD, +20 on the technical score), the key factors of the
\* recommendation contain 'RSI Oversold' with impact positive; whenever it
\* yields an RSI above 70 (OVERBOUGHT), they contain 'RSI Overbought' with
\* impact negative; for every RSI value, the extremes 0 and 100 included.
C23_RsiSignalHasKeyFactor ==
    (pc = "returned" /\ "rsi" \in technical_analysis.indicators.keys) =>
        /\ technical_analysis.indicators.rsi_signal = "OVERSOLD" =>
               HasFactor(recommendation.key_factors, "RSI Oversold", "positive")
        /\ technical_analysis.indicators.rsi_signal = "OVERBOUGHT" =>
               HasFactor(recommendation.key_factors, "RSI Overbought", "negative")

\* C24: whenever no volatility is available the risk level and score come
\* from the fundamentals proxy by first match: debt/equity > 1.5 gives HIGH
\* with score 35; else Large Cap gives LOW with score 60; else Penny Stock
\* gives VERY_HIGH with score 30; else MODERATE with score 50.  So a Large
\* Cap or a Penny Stock with debt/equity > 1.5 is HIGH; and without a usable
\* series (fewer than 20 valid closes) volatility, beta, max drawdown and
\* VaR are all null.
C24_ProxyFirstMatch ==
    (pc = "returned" /\ "volatility_30d" \notin risk_analysis.keys) =>
        LET de == fundamentals.de
            mcap == fundamentals.mcap
            level == risk_analysis.risk_level
            points == risk_analysis.score
        IN  /\ de > 150 => level = "HIGH" /\ points = 350
            /\ (de <= 150 /\ mcap = "Large Cap") => level = "LOW" /\ points = 600
            /\ (de <= 150 /\ mcap = "Penny Stock") =>
                   level = "VERY_HIGH" /\ points = 300
            /\ (de <= 150 /\ mcap \notin {"Large Cap", "Penny Stock"}) =>
                   level = "MODERATE" /\ points = 500
            /\ Len(ClosesOf(historical_data)) < 20 => risk_analysis.keys = {}

\* a Large Cap with debt/equity 1.51 and no series: HIGH, score 35
C24_Witness ==
    /\ pc = "returned"
    /\ historical_data = <<>>
    /\ fundamentals.de = 151
    /\ fundamentals.mcap = "Large Cap"
    /\ risk_analysis.risk_level = "HIGH"
    /\ risk_analysis.score = 350
    /\ risk_analysis.keys = {}

\* the wrapper has finished
Finished == pc \in {"returned", "raised"}

\* what holds of a wrapper with max_retries = n >= 1 and base_delay = b at
\* every moment of its run
RetryInvariant ==
    LET n == wrapper.max_retries
        b == wrapper.base_delay
        done == wrapper.outcomes
        failed == {k \in 1..Len(done) : done[k].kind = "exception"}
    IN  n >= 1 =>
           \* func is invoked at most n times
           /\ Len(done) <= n
           \* every invocation but the latest raised: nothing follows a success
           /\ \A k \in 1..(Len(done) - 1) : k \in failed
           \* the first success is what the wrapper returns
           /\ pc = "returned" =>
                 /\ done # <<>>
                 /\ Last(done).kind = "return"
                 /\ ret = Last(done)
           \* n failures: the exception of the n-th propagates
           /\ (Len(done) = n /\ n \in failed) => (pc = "raised" /\ ret = done[n])
           /\ (pc = "raised" /\ Last(done).kind = "exception") => Len(done) = n
           \* failed attempt k (0-indexed) is followed by a wait of
           \* min(b * 2^k, 300) seconds if k < n - 1, by none if k = n - 1
           /\ wrapper.slept =
                  [k \in 1..Len(wrapper.slept) |-> Min(b * 2^(k - 1), 300)]
           /\ Len(wrapper.slept) =
                  Cardinality({k \in failed : k < n})
                  - (IF pc = "sleep" THEN 1 ELSE 0)
           /\ now = SumSeq(wrapper.slept)

\* C25: a function wrapped with max_retries = n >= 1 and base_delay = b is
\* invoked at most n times; the result of the first successful attempt is
\* returned and no further attempt is made; if all n attempts raise, the
\* exception of the n-th propagates; after failed attempt k < n - 1
\* (0-indexed) the wrapper waits min(b * 2^k, 300) seconds and it does not
\* wait after the final failure; the wrapper always terminates.
C25_RetryBoundedAndTerminates ==
    /\ []RetryInvariant
    /\ [][Finished => UNCHANGED <<wrapper, ret, pc>>]_vars
    /\ <>Finished

\* four failures with base_delay 150: waits of 150, 300 and 300 seconds (the
\* cap), none after the fourth, whose exception propagates
C25_Witness ==
    /\ pc = "raised"
    /\ wrapper.max_retries = 4
    /\ Len(wrapper.outcomes) = 4
    /\ wrapper.slept = <<150, 300, 300>>
    /\ ret = wrapper.outcomes[4]
    /\ ret.kind = "exception"
    /\ wrapper.outcomes[3].value # ret.value

\* C26: in every recommendation the reported overall_signal agrees with the
\* reported composite_score: the signal thresholds 80/65/45/30 applied to
\* the composite_score as returned (rounded to one decimal) give the
\* returned overall_signal.
C26_SignalAgreesWithReportedScore ==
    pc = "returned" =>
        LET reported == recommendation.composite_score
        IN  recommendation.overall_signal =
                (IF reported >= 800 THEN "STRONG BUY"
                 ELSE IF reported >= 650 THEN "BUY"
                 ELSE IF reported >= 450 THEN "HOLD"
                 ELSE IF reported >= 300 THEN "SELL"
                 ELSE "AVOID")

\* C27: for every positive current price and every risk level, each of the
\* four horizon projections has target > current price > stoploss after the
\* rounding to two decimals, so that the risk term (price - stoploss), the
\* divisor of the risk-reward ratio in the action summary, is never zero and
\* the summary never raises.
C27_TargetAbovePriceAboveStoploss ==
    (pc # "call" /\ CurrentPrice(quote) > 0) =>
        LET p == CurrentPrice(quote)
            recs == ret.timeframes
        IN  /\ \A h \in {recs.intraday, recs.short_term, recs.medium_term,
                         recs.long_term} :
                  h.target > p /\ p > h.stoploss
            /\ p - recs.medium_term.stoploss # 0
            /\ pc # "raised"

\* the calls so far in which func was invoked
InvokedCalls == SelectSeq(ret, LAMBDA c : c.invoked)

\* C28: the breaker opens only after failure_threshold consecutive failed
\* calls: a successful call while the breaker is closed resets the failure
\* count, so failures separated by successes never accumulate to open the
\* circuit; and whenever state = 'open', failure_count >= failure_threshold
\* and last_failure_time is set.
C28_OpensOnConsecutiveFailures ==
    LET n == Len(InvokedCalls)
        threshold == breaker.failure_threshold
    IN  /\ breaker.state = "open" =>
              /\ breaker.failure_count >= threshold
              /\ breaker.last_failure_time # -1
              /\ n >= threshold
              /\ \A k \in (n - threshold + 1)..n :
                     InvokedCalls[k].outcome = "raised"
        /\ (breaker.state = "closed" /\ ret # <<>>
              /\ Last(ret).outcome = "returned") =>
              breaker.failure_count = 0

SpecialVerdicts ==
    {"Hidden Gem", "Quality Compounder", "Value Trap", "Strong Momentum",
     "Deep Value", "Safe Haven", "High Risk High Reward"}

\* C30: when none of the special verdicts applies, the ai_verdict reflects
\* the overall signal: STRONG BUY gives 'Strong Buy', BUY gives 'Buy', SELL
\* gives 'Sell', AVOID gives 'Avoid', and only HOLD gives 'Hold & Watch'.
C30_VerdictReflectsSignal ==
    (pc = "returned" /\ recommendation.ai_verdict \notin SpecialVerdicts) =>
        recommendation.ai_verdict =
            CASE recommendation.overall_signal = "STRONG BUY" -> "Strong Buy"
              [] recommendation.overall_signal = "BUY" -> "Buy"
              [] recommendation.overall_signal = "HOLD" -> "Hold & Watch"
              [] recommendation.overall_signal = "SELL" -> "Sell"
              [] recommendation.overall_signal = "AVOID" -> "Avoid"

====
